---- MODULE Spec2Model ----
(***************************************************************************)
(* Model of the streaming transport, the supervisor run and the tool-error *)
(* interceptor of veramoney_apply.                                         *)
(*                                                                         *)
(*   ClientSpec - SSEClient.stream_chat / _fetch_events                    *)
(*                (src/src/chainlit/sse_client.py)                         *)
(*   Spec       - the server stream generators (ChatStreamHandler.handle,  *)
(*                _generate_stream), ChatCompleteHandler.handle, the agent *)
(*                run they drive and the checkpointed session history      *)
(*   ToolSpec   - tool_error_handler                                       *)
(*                (src/src/agent/middleware/tool_error_handler.py)         *)
(***************************************************************************)
EXTENDS Integers, Sequences, FiniteSets, TLC

VARIABLES
    \* ---- client: one stream_chat call ----
    c_pc,            \* position of stream_chat
    attempt_number,  \* local counter, sse_client.py:63,66
    retry_outcome,   \* tenacity RetryCallState.outcome of the retryer
    retry_attempt,   \* tenacity RetryCallState.attempt_number
    last_error,      \* sse_client.py:50
    yielded,         \* events handed to the consumer, in order
    waited,          \* logical clock: total time slept between attempts
    fetches,         \* history: number of _fetch_events runs started
    fails,           \* history: number of fetches ended by a retryable error
    net_fails,       \* history: ... of which connect/read errors
    auth,            \* history: the fetch that received 401/403/429, its status,
                     \* and the time waited until then (at = 0: none)
    origin,          \* history: for each yielded event, the fetch whose body it
                     \* was read from (0: made by the client itself)
    accepted,        \* history: number of POSTs the server answered with 200
    \* ---- tool-error interceptor ----
    tool_log,        \* one record per intercepted tool call
    \* ---- server ----
    pc,              \* position of the request generator
    impl,            \* which entry point serves the request
    sess,            \* session id of the request
    turn,            \* number of the request (1..)
    events,          \* events emitted by the generator, in order
    store,           \* checkpointer: session id -> checkpoint tuple
    appended,        \* history: messages appended per session
    is_opening,      \* result of the opening-message check of the request
    sup,             \* phase of the agent run
    steps,           \* history: reasoning steps that dispatched tools (all requests)
    tokens,          \* history: token chunks streamed (all requests)
    calls,           \* tool calls emitted by the current reasoning step
    inflight,        \* tool calls dispatched and not yet returned
    results,         \* tool calls of the current step that returned, in order
    raised,          \* history: text of the exception raised in the request
    outcome,         \* how the request ended
    \* ---- worker: one ask_<worker>_agent call ----
    w_pc,            \* position of the worker run
    w_name,          \* which worker
    w_limit,         \* recursion_limit handed to the run
    w_steps,         \* steps of the worker graph taken so far
    w_msgs,          \* messages of the worker run
    w_exc,           \* history: the exception that ended the run
    w_result,        \* what ask_<worker>_agent returned
    \* ---- tool adapters: get_stock_price / get_weather invocations ----
    a_pc,            \* position of the invocation
    a_adapter,       \* which adapter is invoked
    a_calls,         \* history: invocations started in the process
    a_attempts,      \* upstream attempts made by this invocation
    a_first,         \* history: how the first attempt of this invocation ended
    a_waited,        \* logical clock: backoff waited by this invocation
    a_failure,       \* history: the failure of this invocation (kind, detail)
    a_result,        \* the tool result of this invocation
    a_pools,         \* history: transport clients constructed, per adapter
    \* ---- WeatherAPIClient: concurrent _get_client calls on one object ----
    g_pc,            \* position of each caller in _get_client
    g_got,           \* the client each caller was returned (0: not yet)
    g_client,        \* self._client (0: None, else the identity of the pool)
    g_lock,          \* self._lock: the caller holding it (0: free)
    g_built,         \* history: httpx.AsyncClient objects constructed
    \* ---- guardrails: one session of an agent with the after_model hooks ----
    q_pc,            \* "idle" | "model" | "tool"
    q_pipeline,      \* which agent construction serves the session
    q_turn,          \* turns started
    q_calls,         \* tool calls made
    q_msgs,          \* state["messages"] of the agent
    q_ref,           \* history: the messages of the same run without the hooks
    q_updates,       \* history: what the hooks returned after the last model call
    q_log,           \* history: warnings logged after the last model call
    q_turn_titles,   \* history: document titles the knowledge tool returned this turn
    q_turn_price,    \* history: price the stock tool returned this turn
    \* ---- MemoryStore: one store object and its calls, in sequence ----
    m_cm,            \* self._async_context_manager (0: None, else its identity)
    m_chk,           \* self._checkpointer (0: None, else the connection it uses)
    m_open,          \* connections open at the database
    m_made,          \* context managers made so far
    m_ready,         \* history: an initialize completed and no close since
    m_lastop,        \* history: the call that was made last
    m_result,        \* history: what the last get_checkpointer call did
    m_ops,           \* calls made
    \* ---- lazily initialized MemoryStore: concurrent callers ----
    l_impl,          \* which lazy getter the callers use
    l_pc,            \* position of each caller
    l_store,         \* the shared store reference (0: None, 1: the MemoryStore)
    l_chk,           \* the store's _checkpointer (0: None)
    l_lock,          \* SupervisorFactory._init_lock: its holder (0: free)
    l_res,           \* what get_checkpointer did for each caller
    \* ---- one streamed request and the observability sink ----
    k_pc,            \* position in the stream generator
    k_impl,          \* "handler" (ChatStreamHandler) | "endpoint" (_generate_stream)
    k_sink,          \* the sink during the request: "ok" | "unavailable" | "raises"
    k_opening,       \* is_opening of the request
    k_calls,         \* the tools the run called, in order
    k_events,        \* events yielded
    k_ref,           \* history: events the same request yields with a working sink
    k_samples,       \* history: samples the sink has taken
    \* ---- Chainlit UI: one on_message call ----
    u_pc,            \* "streaming" | "done" | "error"
    u_pending,       \* pending_tools, handlers.py:50 (tool name -> context)
    u_steps,         \* the cl.Step objects sent, in order
    u_tokens,        \* number of stream_token calls
    u_calls,         \* history: the tool_call events received (tool, args)
    u_answered,      \* history: the calls whose tool_result was received
    \* ---- complete response: the requests of one session ----
    r_pc,            \* "idle" | "running" | "responded"
    r_messages,      \* the checkpointed messages of the session
    r_turn,          \* number of requests made
    r_rounds,        \* number of worker invocations made in the session
    r_start,         \* history: index of the current request's HumanMessage
    r_response       \* ChatCompleteResponse of the last request

clientVars == <<c_pc, attempt_number, retry_outcome, retry_attempt, last_error,
                yielded, waited, fetches, fails, net_fails, auth, origin, accepted>>
toolVars == <<tool_log>>
serverVars == <<pc, impl, sess, turn, events, store, appended, is_opening, sup,
                steps, tokens, calls, inflight, results, raised, outcome>>
workerVars == <<w_pc, w_name, w_limit, w_steps, w_msgs, w_exc, w_result>>
adapterVars == <<a_pc, a_adapter, a_calls, a_attempts, a_first, a_waited, a_failure,
                 a_result, a_pools>>
poolVars == <<g_pc, g_got, g_client, g_lock, g_built>>
guardVars == <<q_pc, q_pipeline, q_turn, q_calls, q_msgs, q_ref, q_updates, q_log,
               q_turn_titles, q_turn_price>>
storeVars == <<m_cm, m_chk, m_open, m_made, m_ready, m_lastop, m_result, m_ops>>
lazyVars == <<l_impl, l_pc, l_store, l_chk, l_lock, l_res>>
sinkVars == <<k_pc, k_impl, k_sink, k_opening, k_calls, k_events, k_ref, k_samples>>
uiVars == <<u_pc, u_pending, u_steps, u_tokens, u_calls, u_answered>>
reportVars == <<r_pc, r_messages, r_turn, r_rounds, r_start, r_response>>
extVars == <<workerVars, adapterVars, poolVars, guardVars, storeVars, lazyVars, sinkVars,
             uiVars, reportVars>>
vars == <<clientVars, toolVars, serverVars, extVars>>

(***************************************************************************)
(* Bounds of the model                                                     *)
(***************************************************************************)
MaxFetch == 5
MaxYield == 3
MaxToolLog == 2
\* requests served; tool-dispatching steps and token chunks over all requests;
\* tool calls of one reasoning step
MaxTurns == 2
MaxSteps == 1
MaxCalls == 2
MaxTokens == 1
\* settings.worker_max_iterations, the configured bound of a worker run
WorkerMaxIterations == 1
\* tool invocations in the process
MaxInvocations == 3
\* concurrent callers of _get_client
NumCallers == 4
\* turns of the guarded session, and tool calls over the session
MaxGuardTurns == 2
MaxGuardCalls == 2
\* calls made on one MemoryStore
MaxStoreOps == 4
\* tool_call events received by one on_message call
MaxUiCalls == 2
\* requests made on one session, and worker invocations made in it
MaxReportTurns == 2
MaxReportRounds == 2

(***************************************************************************)
(* Program constants                                                       *)
(***************************************************************************)
MAX_RETRY_ATTEMPTS == 3
INITIAL_RETRY_DELAY_SECONDS == 1
BACKOFF_MULTIPLIER == 2
HTTP_STATUS_RATE_LIMITED == 429

ERROR_MESSAGE_UNAUTHORIZED == "Unable to connect to the service. Please contact support."
ERROR_MESSAGE_RATE_LIMITED == "Please wait a moment before sending another message."
ERROR_MESSAGE_SERVER_ERROR == "Something went wrong. Please try again."
ERROR_MESSAGE_TIMEOUT == "Request timed out. Please try again."
ERROR_MESSAGE_NETWORK == "Connecting to service..."
STREAM_ERROR_MESSAGE == "An error occurred during processing"

EventTypes == {"token", "tool_call", "tool_result", "done", "error"}
TerminalTypes == {"done", "error"}

\* SSEEvent(type, data): data carries a message for error events only
SSEEvent(t, m) == [type |-> t, message |-> m]

RECURSIVE Pow(_, _)
Pow(b, n) == IF n = 0 THEN 1 ELSE b * Pow(b, n - 1)

\* number of positions of seq s whose element satisfies P
CountIf(s, P(_)) == Cardinality({i \in 1..Len(s) : P(s[i])})

IsTerminal(e) == e.type \in TerminalTypes

(***************************************************************************)
(* CLIENT  (src/src/chainlit/sse_client.py)                                *)
(***************************************************************************)

\* tenacity wait_exponential(multiplier=retry_delay, exp_base=BACKOFF_MULTIPLIER)
\* for the n-th attempt
WaitExponential(n) == INITIAL_RETRY_DELAY_SECONDS * Pow(BACKOFF_MULTIPLIER, n - 1)

\* tenacity BaseRetrying.iter as driven by AsyncRetrying.__anext__:
\* outcome None -> DoAttempt; a successful outcome -> None (StopAsyncIteration);
\* a failed retryable outcome -> RetryError once stop_after_attempt is reached,
\* DoSleep otherwise.
RetryIter(out, n) ==
    IF out = "none" THEN "attempt"
    ELSE IF out = "ok" THEN "stop_iteration"
    ELSE IF n >= MAX_RETRY_ATTEMPTS THEN "retry_error"
    ELSE "sleep"

\* The AttemptManager returned by __anext__ is dropped (sse_client.py:68): it is
\* never entered, so nothing records the attempt's result in the retry state.
RecordOutcome(out, result) == out

\* _classify_final_error
ClassifyFinalError(err) ==
    IF err = "timeout" THEN ERROR_MESSAGE_TIMEOUT
    ELSE IF err \in {"connect", "read"} THEN ERROR_MESSAGE_NETWORK
    ELSE IF err = "http" THEN ERROR_MESSAGE_SERVER_ERROR
    ELSE ERROR_MESSAGE_SERVER_ERROR

ClientMessages == {ERROR_MESSAGE_UNAUTHORIZED, ERROR_MESSAGE_RATE_LIMITED,
                   ERROR_MESSAGE_SERVER_ERROR, ERROR_MESSAGE_TIMEOUT,
                   ERROR_MESSAGE_NETWORK}

\* _RETRYABLE_EXCEPTIONS and _RetryableHTTPError are caught by stream_chat;
\* any other exception of the transport leaves stream_chat.
Retryable(err) == err \in {"connect", "read", "timeout", "http"}

Statuses == {200, 401, 403, 429, 500}

\* Mutant: a rate-limit answer is treated like any other failed status.
StatusActionRetryRateLimit(status) ==
    IF status = 200 THEN "read"
    ELSE IF status \in {401, 403} THEN "unauthorized"
    ELSE "raise_http"

\* _fetch_events, the branch on the response status
StatusAction(status) ==
    IF status = 200 THEN "read"
    ELSE IF status \in {401, 403} THEN "unauthorized"
    ELSE IF status = HTTP_STATUS_RATE_LIMITED THEN "rate_limited"
    ELSE "raise_http"

ClientInit ==
    /\ c_pc = "anext"
    /\ attempt_number = 0
    /\ retry_outcome = "none"
    /\ retry_attempt = 1
    /\ last_error = "none"
    /\ yielded = <<>>
    /\ waited = 0
    /\ fetches = 0
    /\ fails = 0
    /\ net_fails = 0
    /\ auth = [at |-> 0, status |-> 0, waited |-> 0]
    /\ origin = <<>>
    /\ accepted = 0

\* A fetch ended by exception err: the except clauses of stream_chat
\* (sse_client.py:76-86), or the exception leaving stream_chat.
FetchFailed(err) ==
    IF Retryable(err)
    THEN /\ last_error' = err
         /\ retry_outcome' = RecordOutcome(retry_outcome, "failed")
         /\ fails' = fails + 1
         /\ net_fails' = IF err \in {"connect", "read"} THEN net_fails + 1 ELSE net_fails
         /\ c_pc' = "anext"
    ELSE /\ c_pc' = "raised"
         /\ UNCHANGED <<last_error, retry_outcome, fails, net_fails>>

\* while True: attempt_number += 1; await retry_iterator.__anext__()
ClientAnext ==
    /\ c_pc = "anext"
    /\ attempt_number < MaxFetch
    /\ attempt_number' = attempt_number + 1
    /\ LET do == RetryIter(retry_outcome, retry_attempt) IN
       CASE do = "attempt" ->
              /\ c_pc' = "fetch_open"
              /\ UNCHANGED <<retry_outcome, retry_attempt, waited, yielded, origin>>
         [] do = "sleep" ->
              /\ waited' = waited + WaitExponential(retry_attempt)
              /\ retry_attempt' = retry_attempt + 1
              /\ retry_outcome' = "none"
              /\ c_pc' = "fetch_open"
              /\ UNCHANGED <<yielded, origin>>
         [] do = "stop_iteration" ->
              /\ yielded' = Append(yielded, SSEEvent("error", ClassifyFinalError(last_error)))
              /\ origin' = Append(origin, 0)
              /\ c_pc' = "finished"
              /\ UNCHANGED <<retry_outcome, retry_attempt, waited>>
         [] do = "retry_error" ->
              /\ c_pc' = "raised"
              /\ UNCHANGED <<retry_outcome, retry_attempt, waited, yielded, origin>>
    /\ UNCHANGED <<last_error, fetches, fails, net_fails, auth, accepted>>
    /\ UNCHANGED <<toolVars, serverVars, extVars>>

\* _fetch_events: opening the connection fails (connect error, connect
\* timeout, or an error that is not among _RETRYABLE_EXCEPTIONS).
FetchConnectFail ==
    /\ c_pc = "fetch_open"
    /\ fetches' = fetches + 1
    /\ \E err \in {"connect", "timeout", "protocol"} : FetchFailed(err)
    /\ UNCHANGED <<attempt_number, retry_attempt, waited, yielded, auth, origin, accepted>>
    /\ UNCHANGED <<toolVars, serverVars, extVars>>

\* _fetch_events: the server answers with a status (sse_client.py:130-141).
FetchResponse ==
    /\ c_pc = "fetch_open"
    /\ fetches' = fetches + 1
    /\ \E r \in Statuses :
         /\ auth' = IF r \in {401, 403, 429}
                    THEN [at |-> fetches + 1, status |-> r, waited |-> waited]
                    ELSE auth
         /\ accepted' = IF StatusAction(r) = "read" THEN accepted + 1 ELSE accepted
         /\ CASE StatusAction(r) = "read" ->
                   /\ c_pc' = "reading"
                   /\ UNCHANGED <<yielded, origin, last_error, retry_outcome, fails, net_fails>>
              [] StatusAction(r) = "unauthorized" ->
                   /\ yielded' = Append(yielded, SSEEvent("error", ERROR_MESSAGE_UNAUTHORIZED))
                   /\ origin' = Append(origin, 0)
                   /\ c_pc' = "finished"
                   /\ UNCHANGED <<last_error, retry_outcome, fails, net_fails>>
              [] StatusAction(r) = "rate_limited" ->
                   /\ yielded' = Append(yielded, SSEEvent("error", ERROR_MESSAGE_RATE_LIMITED))
                   /\ origin' = Append(origin, 0)
                   /\ c_pc' = "finished"
                   /\ UNCHANGED <<last_error, retry_outcome, fails, net_fails>>
              [] StatusAction(r) = "raise_http" ->
                   /\ FetchFailed("http")
                   /\ UNCHANGED <<yielded, origin>>
    /\ UNCHANGED <<attempt_number, retry_attempt, waited>>
    /\ UNCHANGED <<toolVars, serverVars, extVars>>

\* One frame of the response body (an event: line and its data: line). A frame
\* with empty or unparsable data yields nothing ("skip"); a frame without an
\* event: line is a token. The generator returns after yielding done, and
\* only then.
FetchLine ==
    /\ c_pc = "reading"
    /\ Len(yielded) < MaxYield
    /\ \E t \in EventTypes \cup {"skip"} :
         IF t = "skip"
         THEN UNCHANGED <<yielded, origin, c_pc>>
         ELSE /\ yielded' = Append(yielded,
                     SSEEvent(t, IF t = "error" THEN STREAM_ERROR_MESSAGE ELSE ""))
              /\ origin' = Append(origin, fetches)
              /\ c_pc' = IF t = "done" THEN "finished" ELSE "reading"
    /\ UNCHANGED <<attempt_number, retry_outcome, retry_attempt, last_error, waited,
                   fetches, fails, net_fails, auth, accepted>>
    /\ UNCHANGED <<toolVars, serverVars, extVars>>

\* The server closes the body: aiter_lines ends, _fetch_events ends, and
\* stream_chat returns (sse_client.py:75).
FetchClosed ==
    /\ c_pc = "reading"
    /\ c_pc' = "finished"
    /\ UNCHANGED <<attempt_number, retry_outcome, retry_attempt, last_error, yielded,
                   waited, fetches, fails, net_fails, auth, origin, accepted>>
    /\ UNCHANGED <<toolVars, serverVars, extVars>>

\* Reading the body fails.
FetchReadFail ==
    /\ c_pc = "reading"
    /\ \E err \in {"read", "timeout", "protocol"} : FetchFailed(err)
    /\ UNCHANGED <<attempt_number, retry_attempt, yielded, waited, fetches, auth, origin, accepted>>
    /\ UNCHANGED <<toolVars, serverVars, extVars>>

ClientNext == ClientAnext \/ FetchConnectFail \/ FetchResponse \/ FetchLine \/ FetchClosed \/ FetchReadFail

(***************************************************************************)
(* TOOL-ERROR INTERCEPTOR  (src/src/agent/middleware/tool_error_handler.py)*)
(***************************************************************************)
ToolNames == {"get_weather", "get_stock_price", "ask_stock_agent"}
CallIds == {"call_a", "call_b"}
ExcTexts == {"ConnectionRefused", "HTTP 503 upstream timeout"}
ToolContents == {"22C, partly cloudy", "price 178.52"}

\* TOOL_SERVICE_NAMES.get(tool_name, tool_name)
ServiceName(tool) ==
    IF tool = "get_weather" THEN "weather data"
    ELSE IF tool = "get_stock_price" THEN "stock market data"
    ELSE tool

\* f"I'm having trouble accessing {service_name} right now. Please try again."
\* as the sequence of its pieces
ToolErrorContent(service) ==
    <<"I'm having trouble accessing ", service, " right now. Please try again.">>

ToolMessage(content, id) == [content |-> content, tool_call_id |-> id]

\* What the wrapped handler does with the request: it returns a tool message,
\* raises an Exception with a text, or is cancelled (asyncio.CancelledError is
\* a BaseException, which `except Exception` lets through).
HandlerOutcomes(req) ==
    {[kind |-> "return", msg |-> ToolMessage(<<c>>, req.id), text |-> ""] : c \in ToolContents}
    \cup {[kind |-> "raise", msg |-> ToolMessage(<<>>, ""), text |-> e] : e \in ExcTexts}
    \cup {[kind |-> "cancelled", msg |-> ToolMessage(<<>>, ""), text |-> ""]}

\* Mutant: the exception text is appended to the message.
tool_error_handler_leaky(req, h) ==
    IF h.kind = "raise"
    THEN [kind |-> "return",
          msg |-> ToolMessage(ToolErrorContent(ServiceName(req.name)) \o <<h.text>>, req.id),
          text |-> ""]
    ELSE h

\* tool_error_handler(request, handler): the value returned, or the exception
\* that leaves it
tool_error_handler(req, h) ==
    IF h.kind = "raise"
    THEN [kind |-> "return",
          msg |-> ToolMessage(ToolErrorContent(ServiceName(req.name)), req.id),
          text |-> ""]
    ELSE h

ToolInit == tool_log = <<>>

InterceptToolCall ==
    /\ Len(tool_log) < MaxToolLog
    /\ \E name \in ToolNames, id \in CallIds :
         LET req == [name |-> name, id |-> id] IN
         \E h \in HandlerOutcomes(req) :
            tool_log' = Append(tool_log,
                [request |-> req, handler |-> h, result |-> tool_error_handler(req, h)])
    /\ UNCHANGED <<clientVars, serverVars, extVars>>

ToolNext == InterceptToolCall

(***************************************************************************)
(* SERVER  (src/src/api/handlers/chat_stream.py,                           *)
(*          src/src/api/endpoints/chat_stream.py,                          *)
(*          src/src/api/handlers/chat_complete.py)                         *)
(***************************************************************************)
Sessions == {"s1", "s2"}

\* "handler":  ChatStreamHandler.handle
\* "endpoint": _generate_stream
\* "complete": ChatCompleteHandler.handle (no event stream)
Impls == {"handler", "endpoint", "complete"}
Streaming == {"handler", "endpoint"}

\* A stored message: its kind and the request that produced it.
\* human: HumanMessage, ai_calls: AIMessage with tool_calls,
\* tool: ToolMessage, ai_text: final AIMessage
Msg(k, t) == [kind |-> k, turn |-> t]

\* An event of the stream; call is the tool call it belongs to (0: none)
StreamEvent(t, c, m) == [type |-> t, call |-> c, message |-> m]

NoCheckpoint == [tuple |-> FALSE, checkpoint |-> FALSE, messages |-> <<>>]

\* Mutant: the agent is built without a checkpointer, nothing is persisted.
PersistNothing(st, s, msgs) == st

\* create_agent(..., checkpointer=checkpointer): every step of a run writes a
\* checkpoint of thread_id = session_id holding the messages so far.
Persist(st, s, msgs) ==
    [st EXCEPT ![s] = [tuple |-> TRUE, checkpoint |-> TRUE,
                       messages |-> @.messages \o msgs]]

\* ChatHandlerBase.is_opening_message
IsOpeningBase(s) ==
    LET existing_state == store[s]
        existing_messages == IF existing_state.tuple
                             THEN existing_state.messages ELSE <<>>
    IN Len(existing_messages) = 0

\* SessionStateMixin.is_opening_message
IsOpeningMixin(s) ==
    LET existing_state == store[s]
        is_state_missing == ~existing_state.tuple
        is_checkpoint_missing == IF existing_state.tuple
                                 THEN ~existing_state.checkpoint ELSE TRUE
    IN IF is_state_missing \/ is_checkpoint_missing
       THEN TRUE
       ELSE Len(existing_state.messages) = 0

\* _generate_stream, the inline check. It reads existing_state.values, which a
\* checkpoint tuple need not have: that outcome is an exception of the try
\* block (RaiseException at the opening check).
IsOpeningEndpoint(s) ==
    LET existing_state == store[s]
        existing_messages == IF existing_state.tuple
                             THEN existing_state.messages ELSE <<>>
    IN Len(existing_messages) = 0

IsOpening(i, s) == IF i = "endpoint" THEN IsOpeningEndpoint(s) ELSE IsOpeningBase(s)

\* Creating the agent: ChatStreamHandler.handle reads self._agent_factory,
\* which ChatHandlerBase.__init__ never sets (it sets _supervisor_factory):
\* the attribute access raises AttributeError on every request.
CreateOutcome(i) == IF i = "handler" THEN "AttributeError" ELSE "ok"

\* Mutant: the message carries str(error).
ErrorMessageLeaky(e) == e

\* json.dumps({"message": "An error occurred during processing"})
ErrorMessage(e) == STREAM_ERROR_MESSAGE

\* Mutant: the except clause logs and emits nothing.
OnExceptionSilent(evs, e) == evs

\* except Exception as error: ... yield {"event": "error", ...}
OnException(evs, e) == Append(evs, StreamEvent("error", 0, ErrorMessage(e)))

\* A yield of the generator; ChatCompleteHandler.handle has no stream.
Emit(evs, i, new) == IF i \in Streaming THEN evs \o new ELSE evs

\* Mutant: the tool calls of a step run one after the other.
DispatchFirstOnly(n) == {1}

\* The tool calls of one reasoning step are all started as tasks of the same
\* step of the graph.
Dispatch(n) == 1..n

\* Mutant: reasoning resumes when the first tool result is in.
JoinReadyFirst(n, fl) == Cardinality(fl) < n

\* The step of the graph ends when every task of it has ended.
JoinReady(n, fl) == fl = {}

SeqOf(f(_), n) == [i \in 1..n |-> f(i)]

\* Mutant: the chunks that carry tool calls yield no event.
ToolCallEventsDropped(n) == <<>>

\* one tool_call event per tool call of the model's message, as its chunks
\* arrive
ToolCallEvents(n) == SeqOf(LAMBDA c : StreamEvent("tool_call", c, ""), n)

ServerInit ==
    /\ pc = "idle"
    /\ impl = "endpoint"
    /\ sess = "s1"
    /\ turn = 0
    /\ events = <<>>
    /\ store = [s \in Sessions |-> NoCheckpoint]
    /\ appended = [s \in Sessions |-> 0]
    /\ is_opening = TRUE
    /\ sup = "idle"
    /\ steps = 0
    /\ tokens = 0
    /\ calls = 0
    /\ inflight = {}
    /\ results = <<>>
    /\ raised = "none"
    /\ outcome = "none"

\* A request arrives (requests of this model are sequential).
StartRequest ==
    /\ pc \in {"idle", "closed", "cancelled"}
    /\ turn < MaxTurns
    /\ \E s \in Sessions, i \in Impls :
         /\ sess' = s
         /\ impl' = i
    /\ turn' = turn + 1
    /\ pc' = "opening"
    /\ events' = <<>>
    /\ sup' = "idle"
    /\ calls' = 0
    /\ inflight' = {}
    /\ results' = <<>>
    /\ raised' = "none"
    /\ outcome' = "running"
    /\ UNCHANGED <<store, appended, is_opening, steps, tokens>>
    /\ UNCHANGED <<clientVars, toolVars, extVars>>

\* is_opening = await self.is_opening_message(request.session_id)
OpeningCheck ==
    /\ pc = "opening"
    /\ is_opening' = IsOpening(impl, sess)
    /\ pc' = "create"
    /\ UNCHANGED <<impl, sess, turn, events, store, appended, sup, steps, tokens,
                   calls, inflight, raised, outcome>>
    /\ UNCHANGED results
    /\ UNCHANGED <<clientVars, toolVars, extVars>>

\* An exception e ends the try block: running tool tasks are abandoned, the
\* stream generators emit the error event and end, ChatCompleteHandler raises
\* HTTPException(500).
Fail(e) ==
    /\ raised' = e
    /\ inflight' = {}
    /\ sup' = IF sup = "idle" THEN "idle" ELSE "failed"
    /\ events' = IF impl \in Streaming THEN OnException(events, e) ELSE events
    /\ outcome' = IF impl \in Streaming THEN "returned" ELSE "http500"
    /\ pc' = "closed"

\* agent, config, langfuse_handler = await ...create_agent / create_supervisor
CreateAgent ==
    /\ pc = "create"
    /\ IF CreateOutcome(impl) = "ok"
       THEN /\ pc' = "stream"
            /\ sup' = "start"
            /\ UNCHANGED <<events, inflight, raised, outcome>>
       ELSE Fail(CreateOutcome(impl))
    /\ UNCHANGED <<impl, sess, turn, store, appended, is_opening, steps, tokens, calls>>
    /\ UNCHANGED results
    /\ UNCHANGED <<clientVars, toolVars, extVars>>

\* Anything inside the try block raises an Exception (store unreachable, model
\* call failing, sink failing, ...).
RaiseException ==
    /\ pc \in {"opening", "create", "stream", "post"}
    /\ \E e \in ExcTexts : Fail(e)
    /\ UNCHANGED <<impl, sess, turn, store, appended, is_opening, steps, tokens, calls>>
    /\ UNCHANGED results
    /\ UNCHANGED <<clientVars, toolVars, extVars>>

\* The run starts: the user's message enters the session history.
RunStart ==
    /\ pc = "stream"
    /\ sup = "start"
    /\ store' = Persist(store, sess, <<Msg("human", turn)>>)
    /\ appended' = [appended EXCEPT ![sess] = @ + 1]
    /\ sup' = "reasoning"
    /\ UNCHANGED <<pc, impl, sess, turn, events, is_opening, steps, tokens, calls,
                   inflight, raised, outcome>>
    /\ UNCHANGED results
    /\ UNCHANGED <<clientVars, toolVars, extVars>>

\* The model streams a content chunk: a token event.
ModelToken ==
    /\ pc = "stream"
    /\ sup = "reasoning"
    /\ tokens < MaxTokens
    /\ tokens' = tokens + 1
    /\ events' = Emit(events, impl, <<StreamEvent("token", 0, "")>>)
    /\ UNCHANGED <<pc, impl, sess, turn, store, appended, is_opening, sup, steps,
                   calls, inflight, raised, outcome>>
    /\ UNCHANGED results
    /\ UNCHANGED <<clientVars, toolVars, extVars>>

\* The reasoning step ends with n tool calls: a tool_call event each, the
\* assistant message is checkpointed, the calls are dispatched.
ModelCalls ==
    /\ pc = "stream"
    /\ sup = "reasoning"
    /\ steps < MaxSteps
    /\ \E n \in 1..MaxCalls :
         /\ calls' = n
         /\ events' = Emit(events, impl, ToolCallEvents(n))
         /\ inflight' = Dispatch(n)
    /\ results' = <<>>
    /\ store' = Persist(store, sess, <<Msg("ai_calls", turn)>>)
    /\ appended' = [appended EXCEPT ![sess] = @ + 1]
    /\ steps' = steps + 1
    /\ sup' = "dispatch"
    /\ UNCHANGED <<pc, impl, sess, turn, is_opening, tokens, raised, outcome>>
    /\ UNCHANGED <<clientVars, toolVars, extVars>>

\* One dispatched tool (worker) returns its result: a tool_result event.
WorkerReturn ==
    /\ pc = "stream"
    /\ sup = "dispatch"
    /\ \E c \in inflight :
         /\ inflight' = inflight \ {c}
         /\ results' = Append(results, c)
         /\ events' = Emit(events, impl, <<StreamEvent("tool_result", c, "")>>)
    /\ UNCHANGED <<pc, impl, sess, turn, store, appended, is_opening, sup, steps,
                   tokens, calls, raised, outcome>>
    /\ UNCHANGED <<clientVars, toolVars, extVars>>

\* The tools step ends: the tool messages are checkpointed and the next
\* reasoning step begins.
ToolsJoin ==
    /\ pc = "stream"
    /\ sup = "dispatch"
    /\ JoinReady(calls, inflight)
    /\ store' = Persist(store, sess, SeqOf(LAMBDA c : Msg("tool", turn), calls))
    /\ appended' = [appended EXCEPT ![sess] = @ + calls]
    /\ sup' = "reasoning"
    /\ UNCHANGED <<pc, impl, sess, turn, events, is_opening, steps, tokens, calls,
                   inflight, raised, outcome>>
    /\ UNCHANGED results
    /\ UNCHANGED <<clientVars, toolVars, extVars>>

\* The reasoning step ends without tool calls: the final assistant message is
\* checkpointed and the run ends.
ModelFinal ==
    /\ pc = "stream"
    /\ sup = "reasoning"
    /\ store' = Persist(store, sess, <<Msg("ai_text", turn)>>)
    /\ appended' = [appended EXCEPT ![sess] = @ + 1]
    /\ sup' = "done"
    /\ pc' = "post"
    /\ UNCHANGED <<impl, sess, turn, events, is_opening, steps, tokens, calls,
                   inflight, raised, outcome>>
    /\ UNCHANGED results
    /\ UNCHANGED <<clientVars, toolVars, extVars>>

\* After the run: stock-query samples, flush, then yield done (the stream
\* generators) or return the response (ChatCompleteHandler).
PostStream ==
    /\ pc = "post"
    /\ events' = Emit(events, impl, <<StreamEvent("done", 0, "")>>)
    /\ outcome' = IF impl \in Streaming THEN "returned" ELSE "ok"
    /\ pc' = "closed"
    /\ UNCHANGED <<impl, sess, turn, store, appended, is_opening, sup, steps,
                   tokens, calls, inflight, raised>>
    /\ UNCHANGED results
    /\ UNCHANGED <<clientVars, toolVars, extVars>>

\* The client of a stream disconnects: the generator is cancelled where it
\* stands. CancelledError and GeneratorExit are not Exceptions, so the except
\* clause does not run; the run and its tool tasks are cancelled with the
\* generator. Nothing in the handlers touches the checkpoints already written.
ClientDisconnect ==
    /\ pc \in {"opening", "create", "stream", "post"}
    /\ impl \in Streaming
    /\ pc' = "cancelled"
    /\ outcome' = "cancelled"
    /\ inflight' = {}
    /\ sup' = IF sup = "idle" THEN "idle" ELSE "cancelled"
    /\ UNCHANGED <<impl, sess, turn, events, store, appended, is_opening, steps,
                   tokens, calls, raised>>
    /\ UNCHANGED results
    /\ UNCHANGED <<clientVars, toolVars, extVars>>

ServerNext ==
    \/ StartRequest \/ OpeningCheck \/ CreateAgent \/ RaiseException
    \/ RunStart \/ ModelToken \/ ModelCalls \/ WorkerReturn \/ ToolsJoin
    \/ ModelFinal \/ PostStream \/ ClientDisconnect

(***************************************************************************)
(* WORKERS  (src/src/agent/workers/base.py, stock_worker.py,               *)
(*           weather_worker.py, knowledge_worker.py)                       *)
(***************************************************************************)
Workers == {"weather", "stock", "knowledge"}

\* recursion_limit of a tool built without settings
DEFAULT_RECURSION_LIMIT == 5

\* recursion_limit = (settings.worker_max_iterations * 2) + 1 if settings else 5
RecursionLimit(has_settings) ==
    IF has_settings THEN (WorkerMaxIterations * 2) + 1 ELSE DEFAULT_RECURSION_LIMIT

\* the sentence returned when the run raised
WorkerIssueSentence(w) ==
    <<"I encountered an issue processing your ", w, " request. Please try again.">>

\* the sentence returned when the run gave no message
WorkerEmptySentence(w) ==
    <<"I couldn't retrieve ",
      IF w = "knowledge" THEN "knowledge base" ELSE w,
      " information right now. Please try again.">>

WorkerFailureSentences ==
    {WorkerIssueSentence(w) : w \in Workers} \cup {WorkerEmptySentence(w) : w \in Workers}

\* A message of the worker run: human, ai (with or without tool calls) or tool
WMsg(k, c) == [kind |-> k, content |-> c]

\* text a reasoning step of the worker writes next to its tool call
WorkerPartialTexts == {<<>>, <<"Ticker: AAPL">>}
WorkerFinalText == <<"Ticker: AAPL | Price: $178.52">>
WorkerToolOk == <<"{price: 178.52}">>
\* what the worker's tool returns from its own except clauses
WorkerToolError == <<"{error: Failed to retrieve stock data.}">>

\* _build_middleware: the interceptors of a worker. worker_logging_middleware
\* wraps the model call only; no interceptor wraps the tool call.
WorkerMiddleware == {"worker_logging_middleware"}

\* An exception that leaves the worker's tool: it becomes a tool message only
\* when an interceptor of the pipeline catches it; otherwise it ends the run.
ToolExceptionOutcome(mw) ==
    IF "tool_error_handler" \in mw THEN "tool_message" ELSE "raise"

\* the last text an assistant message of the run holds
RECURSIVE LastAiText(_)
LastAiText(msgs) ==
    IF msgs = <<>> THEN <<>>
    ELSE LET m == msgs[Len(msgs)] IN
         IF m.kind \in {"ai", "ai_calls"} /\ m.content # <<>>
         THEN m.content
         ELSE LastAiText(SubSeq(msgs, 1, Len(msgs) - 1))

\* Mutant: the exception of the run leaves the tool.
ask_agent_reraise(w, run) ==
    IF run.kind = "raise" THEN [kind |-> "raise", text |-> <<run.text>>]
    ELSE IF run.messages = <<>> THEN [kind |-> "return", text |-> WorkerEmptySentence(w)]
    ELSE [kind |-> "return", text |-> run.messages[Len(run.messages)].content]

\* ask_weather_agent / ask_stock_agent / ask_knowledge_agent: run is what
\* worker.ainvoke did (returned the state, or raised an Exception)
ask_agent(w, run) ==
    IF run.kind = "raise" THEN [kind |-> "return", text |-> WorkerIssueSentence(w)]
    ELSE IF run.messages = <<>> THEN [kind |-> "return", text |-> WorkerEmptySentence(w)]
    ELSE [kind |-> "return", text |-> run.messages[Len(run.messages)].content]

NoExc == [at |-> "none", text |-> ""]
NoResult == [kind |-> "none", text |-> <<>>]

WorkerInit ==
    /\ w_pc = "idle"
    /\ w_name = "stock"
    /\ w_limit = DEFAULT_RECURSION_LIMIT
    /\ w_steps = 0
    /\ w_msgs = <<>>
    /\ w_exc = NoExc
    /\ w_result = NoResult

\* The run raises e at place at: ainvoke raises, the except clause of the
\* tool returns its sentence.
WorkerRaise(at, e) ==
    /\ w_exc' = [at |-> at, text |-> e]
    /\ w_result' = ask_agent(w_name, [kind |-> "raise", text |-> e, messages |-> w_msgs])
    /\ w_pc' = "returned"

\* The supervisor calls the worker tool: worker.ainvoke({"messages": [user]},
\* {"recursion_limit": recursion_limit})
AskAgent ==
    /\ w_pc = "idle"
    /\ \E w \in Workers, has_settings \in BOOLEAN :
         /\ w_name' = w
         /\ w_limit' = RecursionLimit(has_settings)
    /\ w_msgs' = <<WMsg("human", <<"AAPL price">>)>>
    /\ w_steps' = 0
    /\ w_pc' = "model"
    /\ UNCHANGED <<w_exc, w_result>>
    /\ UNCHANGED <<clientVars, toolVars, serverVars, adapterVars, poolVars, guardVars, storeVars, lazyVars, sinkVars,
                   uiVars, reportVars>>

\* A reasoning step of the worker: the model answers with the final text, or
\* with a tool call (and maybe some text), or the model call raises.
WorkerModelStep ==
    /\ w_pc = "model"
    /\ w_steps < w_limit
    /\ \E o \in {"final", "call", "raise"} :
         CASE o = "final" ->
                /\ w_msgs' = Append(w_msgs, WMsg("ai", WorkerFinalText))
                /\ w_steps' = w_steps + 1
                /\ w_pc' = "end"
                /\ UNCHANGED <<w_exc, w_result>>
           [] o = "call" ->
                /\ \E t \in WorkerPartialTexts :
                     w_msgs' = Append(w_msgs, WMsg("ai_calls", t))
                /\ w_steps' = w_steps + 1
                /\ w_pc' = "tools"
                /\ UNCHANGED <<w_exc, w_result>>
           [] o = "raise" ->
                /\ \E e \in ExcTexts : WorkerRaise("model", e)
                /\ UNCHANGED <<w_msgs, w_steps>>
    /\ UNCHANGED <<w_name, w_limit>>
    /\ UNCHANGED <<clientVars, toolVars, serverVars, adapterVars, poolVars, guardVars, storeVars, lazyVars, sinkVars,
                   uiVars, reportVars>>

\* The tool step of the worker: the tool returns its data, or the error text
\* of its own except clauses, or an exception leaves it.
WorkerToolStep ==
    /\ w_pc = "tools"
    /\ w_steps < w_limit
    /\ \E o \in {"ok", "error_result", "raise"} :
         CASE o = "ok" ->
                /\ w_msgs' = Append(w_msgs, WMsg("tool", WorkerToolOk))
                /\ w_steps' = w_steps + 1
                /\ w_pc' = "model"
                /\ UNCHANGED <<w_exc, w_result>>
           [] o = "error_result" ->
                /\ w_msgs' = Append(w_msgs, WMsg("tool", WorkerToolError))
                /\ w_steps' = w_steps + 1
                /\ w_pc' = "model"
                /\ UNCHANGED <<w_exc, w_result>>
           [] o = "raise" ->
                \E e \in ExcTexts :
                   IF ToolExceptionOutcome(WorkerMiddleware) = "tool_message"
                   THEN /\ w_msgs' = Append(w_msgs, WMsg("tool_error", WorkerToolError))
                        /\ w_steps' = w_steps + 1
                        /\ w_pc' = "model"
                        /\ w_exc' = [at |-> "tool_handled", text |-> e]
                        /\ UNCHANGED w_result
                   ELSE /\ WorkerRaise("tool", e)
                        /\ UNCHANGED <<w_msgs, w_steps>>
    /\ UNCHANGED <<w_name, w_limit>>
    /\ UNCHANGED <<clientVars, toolVars, serverVars, adapterVars, poolVars, guardVars, storeVars, lazyVars, sinkVars,
                   uiVars, reportVars>>

\* The run needs another step and has none left: the graph raises
\* GraphRecursionError.
WorkerStepLimit ==
    /\ w_pc \in {"model", "tools"}
    /\ w_steps >= w_limit
    /\ WorkerRaise("limit", "GraphRecursionError")
    /\ UNCHANGED <<w_name, w_limit, w_msgs, w_steps>>
    /\ UNCHANGED <<clientVars, toolVars, serverVars, adapterVars, poolVars, guardVars, storeVars, lazyVars, sinkVars,
                   uiVars, reportVars>>

\* The run ended with the final answer: return messages[-1].content
WorkerReturned ==
    /\ w_pc = "end"
    /\ w_result' = ask_agent(w_name, [kind |-> "result", text |-> "", messages |-> w_msgs])
    /\ w_pc' = "returned"
    /\ UNCHANGED <<w_name, w_limit, w_msgs, w_steps, w_exc>>
    /\ UNCHANGED <<clientVars, toolVars, serverVars, adapterVars, poolVars, guardVars, storeVars, lazyVars, sinkVars,
                   uiVars, reportVars>>

WorkerNext ==
    AskAgent \/ WorkerModelStep \/ WorkerToolStep \/ WorkerStepLimit \/ WorkerReturned

(***************************************************************************)
(* TOOL ADAPTERS  (src/src/tools/stock/tool.py, stock/client.py,           *)
(*                 src/src/tools/weather/tool.py, weather/client.py)       *)
(***************************************************************************)
Adapters == {"stock", "weather"}

\* MAX_RETRIES and INITIAL_RETRY_DELAY_SECONDS of the adapters' clients
MAX_RETRIES == 3
CLIENT_INITIAL_RETRY_DELAY_SECONDS == 1
\* exp_base of wait_exponential when none is given
WAIT_EXP_BASE == 2

\* statuses raise_for_status raises on, and str(status_code)
HttpErrorStatuses == {404, 503}
StatusText(code) == CASE code = 404 -> "404" [] code = 503 -> "503"
StatusTexts == {StatusText(c) : c \in HttpErrorStatuses}

\* how one upstream attempt can end
AttemptOutcomes == {"ok", "not_found", "timeout", "http_status", "other"}

\* wait_exponential(multiplier=INITIAL_RETRY_DELAY_SECONDS) for attempt n
ClientWaitExponential(n) == CLIENT_INITIAL_RETRY_DELAY_SECONDS * Pow(WAIT_EXP_BASE, n - 1)

\* the object tenacity hands to the retry predicate
RetryCallState(n, out) == [class |-> "RetryCallState", attempt_number |-> n, outcome |-> out]

\* retry=lambda exc: isinstance(exc, httpx.TimeoutException)
RetryPredicate(exc) == exc.class = "TimeoutException"

\* tenacity iter after a failed attempt: the outcome's exception is re-raised
\* when retry(retry_state) is false, and (reraise=True) when stop is reached;
\* otherwise the retryer sleeps and attempts again.
AfterFailedAttempt(retry_state) ==
    IF ~RetryPredicate(retry_state) THEN "raise"
    ELSE IF retry_state.attempt_number >= MAX_RETRIES THEN "raise"
    ELSE "sleep"

\* get_stock_price / get_weather: the string returned for a failure, as the
\* sequence of its pieces
ToolFailureContent(adapter, kind, detail) ==
    IF adapter = "stock"
    THEN CASE kind = "not_configured" ->
                <<"{error: Stock tool not configured. Set ALPACA_API_KEY and ALPACA_SECRET_KEY environment variables.}">>
           [] kind = "not_found" -> <<"{error: Invalid ticker: ", detail, "}">>
           [] kind = "http_status" -> <<"{error: Stock service error: ", detail, "}">>
           [] kind = "timeout" -> <<"{error: Stock service unavailable. Please try again.}">>
           [] OTHER -> <<"{error: Failed to retrieve stock data.}">>
    ELSE CASE kind = "not_configured" ->
                <<"{error: Weather tool is not configured. Please set OPENWEATHER_API_KEY environment variable.}">>
           [] kind = "not_found" -> <<"{error: City '", detail, "' not found.}">>
           [] kind = "http_status" -> <<"{error: Weather service error: ", detail, "}">>
           [] OTHER -> <<"{error: Failed to retrieve weather data.}">>

\* the input of the invocation (ticker / city)
AdapterInput(adapter) == IF adapter = "stock" THEN "ZZZZ" ELSE "Atlantis"

\* transport clients the n-th upstream attempt of an invocation constructs:
\* the stock client opens httpx.AsyncClient inside every attempt; the weather
\* tool makes a new client object per invocation, whose pool is built by
\* _get_client on its first request
PoolsPerAttempt(adapter, n) ==
    IF adapter = "stock" THEN 1
    ELSE IF n = 1 THEN 1 ELSE 0

NoFailure == [kind |-> "none", detail |-> ""]
NoToolResult == [kind |-> "none", content |-> <<>>]

AdapterInit ==
    /\ a_pc = "idle"
    /\ a_adapter = "stock"
    /\ a_calls = 0
    /\ a_attempts = 0
    /\ a_first = "none"
    /\ a_waited = 0
    /\ a_failure = NoFailure
    /\ a_result = NoToolResult
    /\ a_pools = [a \in Adapters |-> 0]

\* The invocation ends with a failure: the tool returns the error string.
AdapterFail(kind, detail) ==
    /\ a_failure' = [kind |-> kind, detail |-> detail]
    /\ a_result' = [kind |-> "error", content |-> ToolFailureContent(a_adapter, kind, detail)]
    /\ a_pc' = "returned"

\* get_stock_price(ticker) / get_weather(city_name): the tool is called; it
\* returns at once when its client is not configured.
InvokeAdapter ==
    /\ a_pc \in {"idle", "returned"}
    /\ a_calls < MaxInvocations
    /\ a_calls' = a_calls + 1
    /\ a_attempts' = 0
    /\ a_first' = "none"
    /\ a_waited' = 0
    /\ \E a \in Adapters, configured \in BOOLEAN :
         /\ a_adapter' = a
         /\ IF configured
            THEN /\ a_pc' = "request"
                 /\ a_failure' = NoFailure
                 /\ a_result' = NoToolResult
                 /\ UNCHANGED a_pools
            ELSE /\ a_failure' = [kind |-> "not_configured", detail |-> ""]
                 /\ a_result' = [kind |-> "error",
                                 content |-> ToolFailureContent(a, "not_configured", "")]
                 /\ a_pc' = "returned"
                 /\ UNCHANGED a_pools
    /\ UNCHANGED <<clientVars, toolVars, serverVars, workerVars, poolVars, guardVars, storeVars, lazyVars, sinkVars,
                   uiVars, reportVars>>

\* One attempt of _make_request and what the retryer and the tool do with its
\* outcome.
AdapterAttempt ==
    /\ a_pc = "request"
    /\ a_attempts' = a_attempts + 1
    /\ a_pools' = [a_pools EXCEPT ![a_adapter] = @ + PoolsPerAttempt(a_adapter, a_attempts + 1)]
    /\ \E o \in AttemptOutcomes :
         /\ a_first' = IF a_attempts = 0 THEN o ELSE a_first
         /\ CASE o = "ok" ->
                   /\ a_result' = [kind |-> "ok", content |-> <<"{price: 178.52}">>]
                   /\ a_pc' = "returned"
                   /\ UNCHANGED <<a_failure, a_waited>>
              [] o = "not_found" ->
                   /\ AdapterFail("not_found", AdapterInput(a_adapter))
                   /\ UNCHANGED a_waited
              [] OTHER ->
                   LET exc == CASE o = "timeout" -> "TimeoutException"
                                [] o = "http_status" -> "HTTPStatusError"
                                [] OTHER -> "ConnectError"
                       do == AfterFailedAttempt(RetryCallState(a_attempts + 1, exc))
                   IN IF do = "sleep"
                      THEN /\ a_waited' = a_waited + ClientWaitExponential(a_attempts + 1)
                           /\ UNCHANGED <<a_pc, a_failure, a_result>>
                      ELSE /\ UNCHANGED a_waited
                           /\ IF o = "http_status"
                              THEN \E code \in HttpErrorStatuses :
                                      AdapterFail("http_status", StatusText(code))
                              ELSE AdapterFail(o, "")
    /\ UNCHANGED <<a_adapter, a_calls>>
    /\ UNCHANGED <<clientVars, toolVars, serverVars, workerVars, poolVars, guardVars, storeVars, lazyVars, sinkVars,
                   uiVars, reportVars>>

AdapterNext == InvokeAdapter \/ AdapterAttempt

(***************************************************************************)
(* LAZY POOL  (src/src/tools/weather/client.py, WeatherAPIClient)          *)
(***************************************************************************)
Callers == 1..NumCallers

\* Mutant: the check under the lock is left out.
ClientMissingIgnored(client) == TRUE

\* `self._client is not None`, negated: no pool exists yet
ClientMissing(client) == client = 0

PoolInit ==
    /\ g_pc = [c \in Callers |-> "check"]
    /\ g_got = [c \in Callers |-> 0]
    /\ g_client = 0
    /\ g_lock = 0
    /\ g_built = 0

\* if self._client is not None: return self._client
GetClientCheck(c) ==
    /\ g_pc[c] = "check"
    /\ IF g_client # 0
       THEN /\ g_got' = [g_got EXCEPT ![c] = g_client]
            /\ g_pc' = [g_pc EXCEPT ![c] = "done"]
       ELSE /\ g_pc' = [g_pc EXCEPT ![c] = "acquire"]
            /\ UNCHANGED g_got
    /\ UNCHANGED <<g_client, g_lock, g_built>>
    /\ UNCHANGED <<clientVars, toolVars, serverVars, workerVars, adapterVars, guardVars, storeVars, lazyVars, sinkVars,
                   uiVars, reportVars>>

\* async with self._lock: (entered when the lock is free)
GetClientAcquire(c) ==
    /\ g_pc[c] = "acquire"
    /\ g_lock = 0
    /\ g_lock' = c
    /\ g_pc' = [g_pc EXCEPT ![c] = "locked"]
    /\ UNCHANGED <<g_got, g_client, g_built>>
    /\ UNCHANGED <<clientVars, toolVars, serverVars, workerVars, adapterVars, guardVars, storeVars, lazyVars, sinkVars,
                   uiVars, reportVars>>

\* under the lock: if self._client is not None: return self._client
GetClientRecheck(c) ==
    /\ g_pc[c] = "locked"
    /\ IF ClientMissing(g_client)
       THEN /\ g_pc' = [g_pc EXCEPT ![c] = "create"]
            /\ UNCHANGED <<g_got, g_lock>>
       ELSE /\ g_got' = [g_got EXCEPT ![c] = g_client]
            /\ g_lock' = 0
            /\ g_pc' = [g_pc EXCEPT ![c] = "done"]
    /\ UNCHANGED <<g_client, g_built>>
    /\ UNCHANGED <<clientVars, toolVars, serverVars, workerVars, adapterVars, guardVars, storeVars, lazyVars, sinkVars,
                   uiVars, reportVars>>

\* self._client = httpx.AsyncClient(...)
GetClientCreate(c) ==
    /\ g_pc[c] = "create"
    /\ g_built' = g_built + 1
    /\ g_client' = g_built + 1
    /\ g_pc' = [g_pc EXCEPT ![c] = "release"]
    /\ UNCHANGED <<g_got, g_lock>>
    /\ UNCHANGED <<clientVars, toolVars, serverVars, workerVars, adapterVars, guardVars, storeVars, lazyVars, sinkVars,
                   uiVars, reportVars>>

\* the with block ends (the lock is released); return self._client
GetClientReturn(c) ==
    /\ g_pc[c] = "release"
    /\ g_lock' = 0
    /\ g_got' = [g_got EXCEPT ![c] = g_client]
    /\ g_pc' = [g_pc EXCEPT ![c] = "done"]
    /\ UNCHANGED <<g_client, g_built>>
    /\ UNCHANGED <<clientVars, toolVars, serverVars, workerVars, adapterVars, guardVars, storeVars, lazyVars, sinkVars,
                   uiVars, reportVars>>

PoolNext ==
    \E c \in Callers :
        \/ GetClientCheck(c)
        \/ GetClientAcquire(c)
        \/ GetClientRecheck(c)
        \/ GetClientCreate(c)
        \/ GetClientReturn(c)

(***************************************************************************)
(* GUARDRAILS  (src/src/agent/middleware/output_guardrails.py,              *)
(*              src/src/agent/middleware/knowledge_guardrails.py)           *)
(*                                                                         *)
(* A text is a sequence of words; "x in text" of the code is word-level    *)
(* containment, which agrees with the character-level test on the sample   *)
(* words used here (none is a substring of a different one).  A tool       *)
(* content is described by what json.loads makes of it.                    *)
(***************************************************************************)
\* the two agent constructions that install the guardrails: the direct agent
\* (tools get_weather, get_stock_price, search_knowledge) and the supervisor
\* (tools ask_weather_agent, ask_stock_agent, ask_knowledge_agent)
Pipelines == {"direct", "supervisor"}

\* `return None` of the _extract_*_from_json / _find_*_in_text helpers
NoNumber == -1

\* abs(price_in_response - price) > PRICE_TOLERANCE, in cents
PRICE_TOLERANCE == 1

\* content that json.loads rejects (JSONDecodeError), or an assistant text
Text(body) ==
    [kind |-> "text", body |-> body, price |-> NoNumber,
     temperature |-> NoNumber, chunks |-> <<>>]

\* content that json.loads turns into a dict; price / temperature are the
\* numeric values under those keys (NoNumber: key absent), chunks the
\* document_title of each element of "chunks" (<<>>: key absent or empty)
JsonObject(price, temperature, chunks) ==
    [kind |-> "object", body |-> <<>>, price |-> price,
     temperature |-> temperature, chunks |-> chunks]

HumanMessage == [type |-> "human", name |-> "", content |-> Text(<<"question">>)]
AIMessage(content) == [type |-> "ai", name |-> "", content |-> content]
NamedToolMessage(name, content) == [type |-> "tool", name |-> name, content |-> content]

\* str.lower() on the sample words
LowerWord(w) ==
    CASE w = "The" -> "the"
      [] w = "According" -> "according"
      [] w = "VeraMoney" -> "veramoney"
      [] w = "History" -> "history"
      [] w = "Banking" -> "banking"
      [] w = "Fintech" -> "fintech"
      [] w = "Regulation" -> "regulation"
      [] w = "Guide" -> "guide"
      [] w = "AAPL" -> "aapl"
      [] OTHER -> w

Lower(text) == [i \in DOMAIN text |-> LowerWord(text[i])]

\* phrase in text
Contains(text, phrase) ==
    \E i \in 0..(Len(text) - Len(phrase)) :
        SubSeq(text, i + 1, i + Len(phrase)) = phrase

\* float(match.group(1)) of r"\$(\d+(?:\.\d+)?)" on one word, in cents
PriceOfWord(w) ==
    CASE w = "$150.00" -> 15000
      [] w = "$178.52" -> 17852
      [] OTHER -> NoNumber

\* the sample texts state prices as "$d.dd", so the first pattern decides;
\* re.search returns the leftmost match
_find_price_in_text(text) ==
    LET hits == {i \in DOMAIN text : PriceOfWord(text[i]) # NoNumber}
    IN  IF hits = {} THEN NoNumber
        ELSE PriceOfWord(text[CHOOSE i \in hits : \A j \in hits : i <= j])

\* the sample texts state no temperature
_find_temperature_in_text(text) == NoNumber

_extract_price_from_json(content) ==
    IF content.kind = "object" THEN content.price ELSE NoNumber

_extract_temperature_from_json(content) ==
    IF content.kind = "object" THEN content.temperature ELSE NoNumber

parse_json_content(content) == content.kind = "object"

Finding(event, detail) == [event |-> event, detail |-> detail]

ToolPositions(messages, name) ==
    {i \in DOMAIN messages : messages[i].type = "tool" /\ messages[i].name = name}

\* results[tool_name] = message.content over all messages: the last
\* ToolMessage of each of the two names wins
_extract_tool_results(messages) ==
    [n \in {m \in {"get_weather", "get_stock_price"} : ToolPositions(messages, m) # {}} |->
        messages[CHOOSE i \in ToolPositions(messages, n) :
                    \A j \in ToolPositions(messages, n) : j <= i].content]

_check_weather_hallucination(response_content, tool_result) ==
    IF ~Contains(response_content, <<"weather">>) /\ ~Contains(response_content, <<"temperature">>)
    THEN <<>>
    ELSE IF _extract_temperature_from_json(tool_result) = NoNumber THEN <<>>
    ELSE IF _find_temperature_in_text(response_content) = NoNumber THEN <<>>
    ELSE <<Finding("potential_weather_hallucination", <<>>)>>

_check_stock_hallucination(response_content, tool_result) ==
    LET price == _extract_price_from_json(tool_result)
        price_in_response == _find_price_in_text(response_content)
        diff == IF price_in_response >= price THEN price_in_response - price
                ELSE price - price_in_response
    IN  IF ~Contains(response_content, <<"stock">>) /\ ~Contains(response_content, <<"price">>)
        THEN <<>>
        ELSE IF price = NoNumber THEN <<>>
        ELSE IF price_in_response # NoNumber /\ diff > PRICE_TOLERANCE
             THEN <<Finding("potential_stock_hallucination", <<>>)>>
             ELSE <<>>

\* what an after_model hook hands back: a state update (None here) and,
\* as its side effect, the warnings it logged
NoUpdate == [set |-> FALSE, content |-> Text(<<>>), jump_to |-> "none"]
HookResult(update, log) == [update |-> update, log |-> log]

\* Mutant: the hook replaces a text it has a finding about.
output_guardrails_redacting(messages) ==
    IF messages = <<>> THEN HookResult(NoUpdate, <<>>)
    ELSE HookResult([set |-> TRUE, content |-> Text(<<"redacted">>), jump_to |-> "none"], <<>>)

output_guardrails(messages) ==
    IF messages = <<>> THEN HookResult(NoUpdate, <<>>)
    ELSE LET last_message == messages[Len(messages)]
             tool_results == _extract_tool_results(messages)
             response_content == Lower(last_message.content.body)
             weather == IF "get_weather" \in DOMAIN tool_results
                        THEN _check_weather_hallucination(response_content, tool_results["get_weather"])
                        ELSE <<>>
             stock == IF "get_stock_price" \in DOMAIN tool_results
                      THEN _check_stock_hallucination(response_content, tool_results["get_stock_price"])
                      ELSE <<>>
         IN  IF last_message.type # "ai" THEN HookResult(NoUpdate, <<>>)
             ELSE IF last_message.content.body = <<>> THEN HookResult(NoUpdate, <<>>)
             ELSE HookResult(NoUpdate, weather \o stock)

TOOL_KNOWLEDGE == "search_knowledge"

\* the parsed contents of the search_knowledge ToolMessages of the whole
\* message list, in order
_extract_knowledge_tool_results(messages) ==
    LET kept == SelectSeq(messages,
                    LAMBDA m : m.type = "tool" /\ m.name = TOOL_KNOWLEDGE
                               /\ parse_json_content(m.content))
    IN  [i \in DOMAIN kept |-> kept[i].content]

citation_indicators ==
    << <<"source">>, <<"fuente">>, <<"according", "to">>, <<"segun">>,
       <<"documento">>, <<"document">>, <<"page">>, <<"pagina">> >>

_check_citation_presence(response_content, tool_results) ==
    LET has_chunks == \E i \in DOMAIN tool_results : Len(tool_results[i].chunks) > 0
        has_citation == \E i \in DOMAIN citation_indicators :
                            Contains(response_content, citation_indicators[i])
    IN  IF ~has_chunks THEN <<>>
        ELSE IF ~has_citation THEN <<Finding("knowledge_guardrails_no_citation", <<>>)>>
        ELSE <<>>

title_indicators ==
    << <<"historia", "de", "veramoney">>, <<"regulacion", "fintech">>,
       <<"regulacion", "bancaria">>, <<"veramoney", "history">>,
       <<"fintech", "regulation">>, <<"banking", "regulation">> >>

_extract_document_titles_from_response(response_content) ==
    SelectSeq(title_indicators, LAMBDA indicator : Contains(response_content, indicator))

\* retrieved_titles: document_title.lower() of every chunk with a title
RetrievedTitles(tool_results) ==
    UNION {{Lower(tool_results[i].chunks[j]) : j \in DOMAIN tool_results[i].chunks} :
              i \in DOMAIN tool_results} \ {<<>>}

\* mentioned_title in known_title or known_title in mentioned_title
is_known_title(mentioned_title, retrieved_titles) ==
    \E known_title \in retrieved_titles :
        Contains(known_title, mentioned_title) \/ Contains(mentioned_title, known_title)

_check_for_fabricated_citations(response_content, tool_results) ==
    LET retrieved_titles == RetrievedTitles(tool_results)
        mentioned_titles == _extract_document_titles_from_response(response_content)
        offending == SelectSeq(mentioned_titles,
                        LAMBDA t : ~is_known_title(t, retrieved_titles) /\ retrieved_titles # {})
    IN  [i \in DOMAIN offending |->
            Finding("knowledge_guardrails_potential_fabricated_title", offending[i])]

knowledge_guardrails(messages) ==
    IF messages = <<>> THEN HookResult(NoUpdate, <<>>)
    ELSE LET last_message == messages[Len(messages)]
             knowledge_tool_results == _extract_knowledge_tool_results(messages)
             response_content == Lower(last_message.content.body)
         IN  IF last_message.type # "ai" THEN HookResult(NoUpdate, <<>>)
             ELSE IF last_message.content.body = <<>> THEN HookResult(NoUpdate, <<>>)
             ELSE IF knowledge_tool_results = <<>> THEN HookResult(NoUpdate, <<>>)
             ELSE HookResult(NoUpdate,
                      _check_citation_presence(response_content, knowledge_tool_results)
                      \o _check_for_fabricated_citations(response_content, knowledge_tool_results))

\* the agent merges what a hook returns into the state: None changes nothing
ApplyUpdate(messages, update) ==
    IF update.set
    THEN [messages EXCEPT ![Len(messages)].content = update.content]
    ELSE messages

\* the after_model hooks of the middleware stack run after every model call,
\* last installed first, each on the state the previous one left
AfterModel(messages) ==
    LET k == knowledge_guardrails(messages)
        m1 == ApplyUpdate(messages, k.update)
        o == output_guardrails(m1)
    IN  [messages |-> ApplyUpdate(m1, o.update),
         updates |-> <<k.update, o.update>>,
         log |-> k.log \o o.log]

\* sample document titles of the knowledge base
TitleHistory == <<"VeraMoney", "History">>
TitleFintech == <<"Fintech", "Regulation", "Guide">>
TitleRegulation == <<"Regulation">>

\* what the three tools can hand back: <<tool, content>>
ToolReturns ==
    { <<"get_stock_price", JsonObject(17852, NoNumber, <<>>)>>,
      <<"get_stock_price", JsonObject(NoNumber, NoNumber, <<>>)>>,
      <<"get_weather", JsonObject(NoNumber, NoNumber, <<>>)>>,
      <<"search_knowledge", JsonObject(NoNumber, NoNumber, <<TitleHistory, TitleFintech>>)>>,
      <<"search_knowledge", JsonObject(NoNumber, NoNumber, <<TitleRegulation>>)>>,
      <<"search_knowledge", JsonObject(NoNumber, NoNumber, <<>>)>> }

\* final texts of the model
ModelTexts ==
    { <<"The", "stock", "price", "is", "$150.00">>,
      <<"AAPL", "is", "at", "$150.00">>,
      <<"the", "price", "is", "$178.52">>,
      <<"According", "to", "VeraMoney", "History", "and", "Banking", "Regulation">>,
      <<"VeraMoney", "History">> }

\* the supervisor's tool for a worker's tool
WorkerToolName(tool) ==
    CASE tool = "get_stock_price" -> "ask_stock_agent"
      [] tool = "get_weather" -> "ask_weather_agent"
      [] tool = "search_knowledge" -> "ask_knowledge_agent"

\* messages[-1].content of the worker: a text, never the tool's JSON
WorkerAnswer(tool, content) ==
    IF content.price # NoNumber THEN Text(<<"the", "price", "is", "$178.52">>)
    ELSE IF content.chunks # <<>> THEN Text(<<"According", "to">> \o content.chunks[1])
    ELSE Text(<<"done">>)

\* the ToolMessage the agent of the pipeline stores for a tool return
StoredToolMessage(pipeline, tool, content) ==
    IF pipeline = "direct"
    THEN NamedToolMessage(tool, content)
    ELSE NamedToolMessage(WorkerToolName(tool), WorkerAnswer(tool, content))

GuardInit ==
    /\ q_pc = "idle"
    /\ q_pipeline = "none"
    /\ q_turn = 0
    /\ q_calls = 0
    /\ q_msgs = <<>>
    /\ q_ref = <<>>
    /\ q_updates = <<>>
    /\ q_log = <<>>
    /\ q_turn_titles = {}
    /\ q_turn_price = NoNumber

\* a user message opens a turn of the session
GuardUserMessage(p) ==
    /\ q_pc = "idle"
    /\ q_turn < MaxGuardTurns
    /\ q_turn = 0 \/ p = q_pipeline
    /\ q_pipeline' = p
    /\ q_turn' = q_turn + 1
    /\ q_msgs' = Append(q_msgs, HumanMessage)
    /\ q_ref' = Append(q_ref, HumanMessage)
    /\ q_turn_titles' = {}
    /\ q_turn_price' = NoNumber
    /\ q_pc' = "model"
    /\ UNCHANGED <<q_calls, q_updates, q_log>>
    /\ UNCHANGED <<clientVars, toolVars, serverVars, workerVars, adapterVars, poolVars, storeVars, lazyVars, sinkVars,
                   uiVars, reportVars>>

\* the model asks for a tool (no text); the after_model hooks run
GuardModelCallsTool ==
    /\ q_pc = "model"
    /\ q_calls < MaxGuardCalls
    /\ LET after == AfterModel(Append(q_msgs, AIMessage(Text(<<>>))))
       IN  /\ q_msgs' = after.messages
           /\ q_updates' = after.updates
           /\ q_log' = after.log
    /\ q_ref' = Append(q_ref, AIMessage(Text(<<>>)))
    /\ q_calls' = q_calls + 1
    /\ q_pc' = "tool"
    /\ UNCHANGED <<q_pipeline, q_turn, q_turn_titles, q_turn_price>>
    /\ UNCHANGED <<clientVars, toolVars, serverVars, workerVars, adapterVars, poolVars, storeVars, lazyVars, sinkVars,
                   uiVars, reportVars>>

\* the tool returns; its message is stored
GuardToolReturns(r) ==
    /\ q_pc = "tool"
    /\ q_msgs' = Append(q_msgs, StoredToolMessage(q_pipeline, r[1], r[2]))
    /\ q_ref' = Append(q_ref, StoredToolMessage(q_pipeline, r[1], r[2]))
    /\ q_turn_titles' = q_turn_titles \cup {r[2].chunks[j] : j \in DOMAIN r[2].chunks}
    /\ q_turn_price' = IF r[2].price # NoNumber THEN r[2].price ELSE q_turn_price
    /\ q_pc' = "model"
    /\ UNCHANGED <<q_pipeline, q_turn, q_calls, q_updates, q_log>>
    /\ UNCHANGED <<clientVars, toolVars, serverVars, workerVars, adapterVars, poolVars, storeVars, lazyVars, sinkVars,
                   uiVars, reportVars>>

\* the model gives its final text; the after_model hooks run; the turn ends
GuardModelAnswers(text) ==
    /\ q_pc = "model"
    /\ LET after == AfterModel(Append(q_msgs, AIMessage(Text(text))))
       IN  /\ q_msgs' = after.messages
           /\ q_updates' = after.updates
           /\ q_log' = after.log
    /\ q_ref' = Append(q_ref, AIMessage(Text(text)))
    /\ q_pc' = "idle"
    /\ UNCHANGED <<q_pipeline, q_turn, q_calls, q_turn_titles, q_turn_price>>
    /\ UNCHANGED <<clientVars, toolVars, serverVars, workerVars, adapterVars, poolVars, storeVars, lazyVars, sinkVars,
                   uiVars, reportVars>>

GuardNext ==
    \/ \E p \in Pipelines : GuardUserMessage(p)
    \/ GuardModelCallsTool
    \/ \E r \in ToolReturns : GuardToolReturns(r)
    \/ \E text \in ModelTexts : GuardModelAnswers(text)

(***************************************************************************)
(* MEMORY STORE  (src/src/agent/memory/store.py, MemoryStore)              *)
(***************************************************************************)
\* how an initialize call can go: both awaits succeed, the connection cannot
\* be opened (__aenter__ raises), or the schema setup fails (setup() raises)
InitializeOutcomes == {"ok", "connect_error", "setup_error"}

\* Mutant: the checkpointer is handed out without the None check.
get_checkpointer_unchecked(checkpointer) == "checkpointer"

\* raise RuntimeError when self._checkpointer is None, else return it
get_checkpointer(checkpointer) ==
    IF checkpointer = 0 THEN "RuntimeError" ELSE "checkpointer"

StoreInit ==
    /\ m_cm = 0
    /\ m_chk = 0
    /\ m_open = {}
    /\ m_made = 0
    /\ m_ready = FALSE
    /\ m_lastop = "none"
    /\ m_result = "none"
    /\ m_ops = 0

\* initialize: the context manager is stored first, then entered (the
\* connection opens and the checkpointer is stored), then setup() runs
StoreInitialize(how) ==
    /\ m_ops < MaxStoreOps
    /\ m_ops' = m_ops + 1
    /\ m_made' = m_made + 1
    /\ m_cm' = m_made + 1
    /\ IF how = "connect_error"
       THEN UNCHANGED <<m_chk, m_open>>
       ELSE /\ m_chk' = m_made + 1
            /\ m_open' = m_open \cup {m_made + 1}
    /\ m_ready' = (m_ready \/ how = "ok")
    /\ m_lastop' = "initialize"
    /\ UNCHANGED m_result
    /\ UNCHANGED <<clientVars, toolVars, serverVars, workerVars, adapterVars, poolVars, guardVars, lazyVars, sinkVars,
                   uiVars, reportVars>>

StoreGetCheckpointer ==
    /\ m_ops < MaxStoreOps
    /\ m_ops' = m_ops + 1
    /\ m_result' = get_checkpointer(m_chk)
    /\ m_lastop' = "get_checkpointer"
    /\ UNCHANGED <<m_cm, m_chk, m_open, m_made, m_ready>>
    /\ UNCHANGED <<clientVars, toolVars, serverVars, workerVars, adapterVars, poolVars, guardVars, lazyVars, sinkVars,
                   uiVars, reportVars>>

\* close: __aexit__ of the stored context manager closes its connection (a
\* context manager whose __aenter__ failed has none), both fields are cleared
StoreClose ==
    /\ m_ops < MaxStoreOps
    /\ m_ops' = m_ops + 1
    /\ IF m_cm # 0
       THEN /\ m_open' = m_open \ {m_cm}
            /\ m_chk' = 0
            /\ m_cm' = 0
       ELSE UNCHANGED <<m_cm, m_chk, m_open>>
    /\ m_ready' = FALSE
    /\ m_lastop' = "close"
    /\ UNCHANGED <<m_made, m_result>>
    /\ UNCHANGED <<clientVars, toolVars, serverVars, workerVars, adapterVars, poolVars, guardVars, lazyVars, sinkVars,
                   uiVars, reportVars>>

StoreNext ==
    \/ \E how \in InitializeOutcomes : StoreInitialize(how)
    \/ StoreGetCheckpointer
    \/ StoreClose

(***************************************************************************)
(* LAZY MEMORY STORE  (src/src/agent/memory/store.py, get_memory_store;    *)
(*                     src/src/agent/core/supervisor.py, _get_memory_store) *)
(*                                                                         *)
(* Steps are the stretches of code between two awaits that suspend: the    *)
(* event loop runs another caller only there.                              *)
(***************************************************************************)
LazyGetters == {"get_memory_store", "_get_memory_store"}

\* after the getter returns, the caller asks the store for its checkpointer:
\* create_supervisor does so with no await in between, the endpoints await
\* initialize_langfuse_client() first
LazyReturn(c, getter) ==
    IF getter = "_get_memory_store"
    THEN /\ l_res' = [l_res EXCEPT ![c] = get_checkpointer(l_chk)]
         /\ l_pc' = [l_pc EXCEPT ![c] = "done"]
    ELSE /\ l_pc' = [l_pc EXCEPT ![c] = "got"]
         /\ UNCHANGED l_res

LazyInit ==
    /\ l_impl = "none"
    /\ l_pc = [c \in Callers |-> "idle"]
    /\ l_store = 0
    /\ l_chk = 0
    /\ l_lock = 0
    /\ l_res = [c \in Callers |-> "none"]

\* the getter up to its first suspending await: a store that exists is
\* returned; otherwise (under the lock, for the factory) the store is made,
\* assigned, and its initialize starts and waits for the connection
LazyCall(c, getter) ==
    /\ l_pc[c] = "idle"
    /\ l_impl \in {"none", getter}
    /\ l_impl' = getter
    /\ l_store = 0 => l_lock = 0
    /\ IF l_store # 0
       THEN /\ LazyReturn(c, getter)
            /\ UNCHANGED <<l_store, l_chk, l_lock>>
       ELSE /\ l_store' = 1
            /\ l_lock' = IF getter = "_get_memory_store" THEN c ELSE 0
            /\ l_pc' = [l_pc EXCEPT ![c] = "aenter"]
            /\ UNCHANGED <<l_chk, l_res>>
    /\ UNCHANGED <<clientVars, toolVars, serverVars, workerVars, adapterVars, poolVars, guardVars, storeVars, sinkVars,
                   uiVars, reportVars>>

\* __aenter__ has completed: the checkpointer is stored, setup() is awaited
LazyEntered(c) ==
    /\ l_pc[c] = "aenter"
    /\ l_chk' = 1
    /\ l_pc' = [l_pc EXCEPT ![c] = "setup"]
    /\ UNCHANGED <<l_impl, l_store, l_lock, l_res>>
    /\ UNCHANGED <<clientVars, toolVars, serverVars, workerVars, adapterVars, poolVars, guardVars, storeVars, sinkVars,
                   uiVars, reportVars>>

\* setup() has completed: initialize returns, the lock is released, the
\* getter returns the store
LazyInitialized(c) ==
    /\ l_pc[c] = "setup"
    /\ l_lock' = 0
    /\ LazyReturn(c, l_impl)
    /\ UNCHANGED <<l_impl, l_store, l_chk>>
    /\ UNCHANGED <<clientVars, toolVars, serverVars, workerVars, adapterVars, poolVars, guardVars, storeVars, sinkVars,
                   uiVars, reportVars>>

\* memory_store.get_checkpointer() of an endpoint
LazyGetCheckpointer(c) ==
    /\ l_pc[c] = "got"
    /\ l_res' = [l_res EXCEPT ![c] = get_checkpointer(l_chk)]
    /\ l_pc' = [l_pc EXCEPT ![c] = "done"]
    /\ UNCHANGED <<l_impl, l_store, l_chk, l_lock>>
    /\ UNCHANGED <<clientVars, toolVars, serverVars, workerVars, adapterVars, poolVars, guardVars, storeVars, sinkVars,
                   uiVars, reportVars>>

LazyNext ==
    \E c \in Callers :
        \/ \E getter \in LazyGetters : LazyCall(c, getter)
        \/ LazyEntered(c)
        \/ LazyInitialized(c)
        \/ LazyGetCheckpointer(c)

(***************************************************************************)
(* OBSERVABILITY SINK  (src/src/api/handlers/chat_stream.py,               *)
(*                      src/src/observability/datasets.py)                 *)
(***************************************************************************)
SinkStates == {"ok", "unavailable", "raises"}

STOCK_TOOL_NAME == "ask_stock_agent"

\* the tool run_calls of a run
RunCalls ==
    { <<>>, <<"ask_stock_agent">>, <<"ask_weather_agent">>,
      <<"ask_stock_agent", "ask_stock_agent">>, <<"ask_weather_agent", "ask_stock_agent">> }

\* DatasetManager.add_opening_message / add_stock_query: nothing when the sink
\* is unavailable; otherwise the client run_calls run inside try / except
\* Exception, which logs a warning and returns
AddSample(samples, sink, kind) ==
    IF sink = "ok" THEN Append(samples, kind) ELSE samples

\* langfuse_client.flush() is called when there are a handler and a client,
\* inside the generator's try block and with no guard of its own
FlushOutcome(sink) == IF sink = "raises" THEN "FlushError" ELSE "done"

\* the events of the run: tool_call and tool_result of every call, a token
RunEvents(run_calls) ==
    [i \in 1..Len(run_calls) |-> StreamEvent("tool_call", i, "")]
    \o [i \in 1..Len(run_calls) |-> StreamEvent("tool_result", i, "")]
    \o <<StreamEvent("token", 0, "")>>

SinkInit ==
    /\ k_pc = "idle"
    /\ k_impl = "none"
    /\ k_sink = "ok"
    /\ k_opening = FALSE
    /\ k_calls = <<>>
    /\ k_events = <<>>
    /\ k_ref = <<>>
    /\ k_samples = <<>>

\* a request arrives; is_opening is read from the store
SinkRequest(i, sink, opening) ==
    /\ k_pc = "idle"
    /\ k_impl' = i
    /\ k_sink' = sink
    /\ k_opening' = opening
    /\ k_pc' = "opening"
    /\ UNCHANGED <<k_calls, k_events, k_ref, k_samples>>
    /\ UNCHANGED <<clientVars, toolVars, serverVars, workerVars, adapterVars, poolVars, guardVars, storeVars, lazyVars,
                   uiVars, reportVars>>

\* if is_opening: self.dataset_manager.add_opening_message(...)
SinkOpeningSample ==
    /\ k_pc = "opening"
    /\ k_samples' = IF k_opening THEN AddSample(k_samples, k_sink, "opening") ELSE k_samples
    /\ k_pc' = "create"
    /\ UNCHANGED <<k_impl, k_sink, k_opening, k_calls, k_events, k_ref>>
    /\ UNCHANGED <<clientVars, toolVars, serverVars, workerVars, adapterVars, poolVars, guardVars, storeVars, lazyVars,
                   uiVars, reportVars>>

\* the agent is created (ChatStreamHandler raises AttributeError here) and the
\* run is streamed
SinkStream(run_calls) ==
    /\ k_pc = "create"
    /\ IF CreateOutcome(k_impl) = "ok"
       THEN /\ k_calls' = run_calls
            /\ k_events' = RunEvents(run_calls)
            /\ k_ref' = RunEvents(run_calls)
            /\ k_pc' = "collect"
       ELSE /\ k_calls' = <<>>
            /\ k_events' = OnException(k_events, CreateOutcome(k_impl))
            /\ k_ref' = OnException(k_ref, CreateOutcome(k_impl))
            /\ k_pc' = "closed"
    /\ UNCHANGED <<k_impl, k_sink, k_opening, k_samples>>
    /\ UNCHANGED <<clientVars, toolVars, serverVars, workerVars, adapterVars, poolVars, guardVars, storeVars, lazyVars,
                   uiVars, reportVars>>

\* _collect_stock_queries_from_stream: one stock-query sample per stock call
SinkCollect ==
    /\ k_pc = "collect"
    /\ k_samples' =
          IF k_sink = "unavailable" THEN k_samples
          ELSE k_samples \o SelectSeq([i \in DOMAIN k_calls |->
                                          IF k_calls[i] = STOCK_TOOL_NAME /\ k_sink = "ok"
                                          THEN "stock_query" ELSE "none"],
                                      LAMBDA s : s = "stock_query")
    /\ k_pc' = "flush"
    /\ UNCHANGED <<k_impl, k_sink, k_opening, k_calls, k_events, k_ref>>
    /\ UNCHANGED <<clientVars, toolVars, serverVars, workerVars, adapterVars, poolVars, guardVars, storeVars, lazyVars,
                   uiVars, reportVars>>

\* if langfuse_handler and langfuse_client: flush(); then yield done. An
\* exception of flush reaches the generator's except clause
SinkFlush ==
    /\ k_pc = "flush"
    /\ k_events' =
          IF k_sink = "unavailable" \/ FlushOutcome(k_sink) = "done"
          THEN Append(k_events, StreamEvent("done", 0, ""))
          ELSE OnException(k_events, FlushOutcome(k_sink))
    /\ k_ref' = Append(k_ref, StreamEvent("done", 0, ""))
    /\ k_pc' = "closed"
    /\ UNCHANGED <<k_impl, k_sink, k_opening, k_calls, k_samples>>
    /\ UNCHANGED <<clientVars, toolVars, serverVars, workerVars, adapterVars, poolVars, guardVars, storeVars, lazyVars,
                   uiVars, reportVars>>

SinkNext ==
    \/ \E i \in Streaming, sink \in SinkStates, opening \in BOOLEAN : SinkRequest(i, sink, opening)
    \/ SinkOpeningSample
    \/ \E run_calls \in RunCalls : SinkStream(run_calls)
    \/ SinkCollect
    \/ SinkFlush


(***************************************************************************)
(* CHAINLIT UI  (src/src/chainlit/handlers.py)                             *)
(***************************************************************************)
TOOL_STOCK == "get_stock_price"
TOOL_WEATHER == "get_weather"
UiTools == {TOOL_STOCK, TOOL_WEATHER, TOOL_KNOWLEDGE}

\* The args of a tool_call event: the key of each tool, "" when absent.
UiArgs(tool) ==
    IF tool = TOOL_STOCK THEN {[ticker |-> "AAPL"], [ticker |-> "MSFT"]}
    ELSE IF tool = TOOL_WEATHER THEN {[city_name |-> "Lima"], [city_name |-> "Oslo"]}
    ELSE {[document_type |-> ""], [document_type |-> "regulation"]}

\* _extract_tool_context
_extract_tool_context(tool_name, tool_args) ==
    IF tool_name = TOOL_STOCK THEN tool_args.ticker
    ELSE IF tool_name = TOOL_WEATHER THEN tool_args.city_name
    ELSE IF tool_name = TOOL_KNOWLEDGE
         THEN IF tool_args.document_type # "" THEN tool_args.document_type
              ELSE "all documents"
    ELSE ""

\* _build_step_name: the f-string as the pair of its text and the context
_build_step_name(tool_name, context) ==
    IF tool_name = TOOL_STOCK
    THEN IF context # "" THEN <<"Fetching stock data for", context>>
         ELSE <<"Fetching stock data">>
    ELSE IF tool_name = TOOL_WEATHER
    THEN IF context # "" THEN <<"Fetching weather for", context>>
         ELSE <<"Fetching weather">>
    ELSE IF tool_name = TOOL_KNOWLEDGE
    THEN IF context # "" THEN <<"Searching knowledge base", context>>
         ELSE <<"Searching knowledge base">>
    ELSE <<"title", tool_name>>

\* _build_step_output
_build_step_output(tool_name, context) ==
    IF tool_name = TOOL_STOCK
    THEN IF context # "" THEN <<"Retrieved stock data for", context>>
         ELSE <<"Retrieved stock data">>
    ELSE IF tool_name = TOOL_WEATHER
    THEN IF context # "" THEN <<"Retrieved weather for", context>>
         ELSE <<"Retrieved weather">>
    ELSE IF tool_name = TOOL_KNOWLEDGE THEN <<"Found relevant documents">>
    ELSE <<"Completed">>

\* a key absent from pending_tools
NoPending == [present |-> FALSE, context |-> ""]

\* pending_tools: dict[str, dict] = {}
UiInit ==
    /\ u_pc = "streaming"
    /\ u_pending = [t \in UiTools |-> NoPending]
    /\ u_steps = <<>>
    /\ u_tokens = 0
    /\ u_calls = <<>>
    /\ u_answered = {}

\* event.type == "token": msg.stream_token(content)
UiToken ==
    /\ u_pc = "streaming"
    /\ u_tokens < MaxTokens
    /\ u_tokens' = u_tokens + 1
    /\ UNCHANGED <<u_pc, u_pending, u_steps, u_calls, u_answered>>
    /\ UNCHANGED <<clientVars, toolVars, serverVars, workerVars, adapterVars, poolVars, guardVars, storeVars, lazyVars, sinkVars, reportVars>>

\* event.type == "tool_call": pending_tools[tool_name] = {"context": context}
UiToolCall(tool, args) ==
    /\ u_pc = "streaming"
    /\ Len(u_calls) < MaxUiCalls
    /\ u_pending' = [u_pending EXCEPT
                       ![tool] = [present |-> TRUE,
                                  context |-> _extract_tool_context(tool, args)]]
    /\ u_calls' = Append(u_calls, [tool |-> tool, args |-> args])
    /\ UNCHANGED <<u_pc, u_steps, u_tokens, u_answered>>
    /\ UNCHANGED <<clientVars, toolVars, serverVars, workerVars, adapterVars, poolVars, guardVars, storeVars, lazyVars, sinkVars, reportVars>>

\* event.type == "tool_result" of call number c (its tool_call was received
\* and its result was not): tool_info = pending_tools.pop(tool_name, None);
\* a step is sent when tool_info is there.
UiToolResult(c) ==
    /\ u_pc = "streaming"
    /\ c \in DOMAIN u_calls \ u_answered
    /\ LET tool_name == u_calls[c].tool
           tool_info == u_pending[tool_name]
       IN  /\ u_pending' = [u_pending EXCEPT ![tool_name] = NoPending]
           /\ u_steps' =
                 IF tool_info.present
                 THEN Append(u_steps,
                        [name |-> _build_step_name(tool_name, tool_info.context),
                         output |-> _build_step_output(tool_name, tool_info.context),
                         result |-> c])
                 ELSE u_steps
    /\ u_answered' = u_answered \cup {c}
    /\ UNCHANGED <<u_pc, u_tokens, u_calls>>
    /\ UNCHANGED <<clientVars, toolVars, serverVars, workerVars, adapterVars, poolVars, guardVars, storeVars, lazyVars, sinkVars, reportVars>>

\* event.type == "error" (update, send the message, return) or "done" (break,
\* then msg.update())
UiTerminal(type) ==
    /\ u_pc = "streaming"
    /\ u_pc' = type
    /\ UNCHANGED <<u_pending, u_steps, u_tokens, u_calls, u_answered>>
    /\ UNCHANGED <<clientVars, toolVars, serverVars, workerVars, adapterVars, poolVars, guardVars, storeVars, lazyVars, sinkVars, reportVars>>

UiNext ==
    \/ UiToken
    \/ \E tool \in UiTools : \E args \in UiArgs(tool) : UiToolCall(tool, args)
    \/ \E c \in 1..MaxUiCalls : UiToolResult(c)
    \/ \E type \in {"error", "done"} : UiTerminal(type)


(***************************************************************************)
(* COMPLETE RESPONSE  (src/src/api/handlers/chat_complete.py)              *)
(***************************************************************************)
ALL_WORKER_TOOLS == {"ask_weather_agent", "ask_stock_agent", "ask_knowledge_agent"}
\* the worker tools the runs of the model call
ReportWorkerTools == {"ask_weather_agent", "ask_stock_agent"}
ReportRequests == {"today", "this week"}

ReportHuman == [type |-> "human"]
ReportAI(tool_calls, content) == [type |-> "ai", tool_calls |-> tool_calls, content |-> content]
ReportTool(name, tool_call_id, content) ==
    [type |-> "tool", name |-> name, tool_call_id |-> tool_call_id, content |-> content]

\* message.name.replace("ask_", "").replace("_agent", "")
ReportWorkerName(name) ==
    IF name = "ask_weather_agent" THEN "weather"
    ELSE IF name = "ask_stock_agent" THEN "stock"
    ELSE IF name = "ask_knowledge_agent" THEN "knowledge"
    ELSE name

\* `x if x else None`
OrNone(list) == [is_none |-> list = <<>>, items |-> list]

\* the tool calls of the AI messages of a list, in order
RECURSIVE MessageToolCalls(_)
MessageToolCalls(messages) ==
    IF messages = <<>> THEN <<>>
    ELSE (IF Head(messages).type = "ai" THEN Head(messages).tool_calls ELSE <<>>)
         \o MessageToolCalls(Tail(messages))

\* the loop body of _extract_tool_calls: a call is kept when its
\* (name, args) key was not seen
RECURSIVE KeepUnseen(_, _)
KeepUnseen(tcs, seen_tools) ==
    IF tcs = <<>> THEN <<>>
    ELSE LET tc == Head(tcs)
             tool_key == <<tc.name, tc.args>>
         IN  IF tool_key \in seen_tools
             THEN KeepUnseen(Tail(tcs), seen_tools)
             ELSE <<[tool |-> tc.name, input |-> tc.args]>>
                  \o KeepUnseen(Tail(tcs), seen_tools \cup {tool_key})

\* _extract_tool_calls
_extract_tool_calls(messages) == OrNone(KeepUnseen(MessageToolCalls(messages), {}))

\* worker_request_map.get(message.tool_call_id, ""): the request of the
\* worker call with that id (ids are unique in a session)
WorkerRequestOf(messages, tool_call_id) ==
    LET tcs == MessageToolCalls(messages)
        hits == {i \in DOMAIN tcs : tcs[i].id = tool_call_id
                                     /\ tcs[i].name \in ALL_WORKER_TOOLS}
    IN  IF hits = {} THEN ""
        ELSE tcs[CHOOSE i \in hits : \A j \in hits : j <= i].args.request

\* the second loop of _extract_worker_details over the tail `rest` of messages
RECURSIVE WorkerDetailsOf(_, _)
WorkerDetailsOf(messages, rest) ==
    IF rest = <<>> THEN <<>>
    ELSE LET message == Head(rest) IN
         (IF message.type = "tool" /\ message.name \in ALL_WORKER_TOOLS
          THEN <<[worker_name |-> ReportWorkerName(message.name),
                  worker_request |-> WorkerRequestOf(messages, message.tool_call_id),
                  worker_response |-> message.content]>>
          ELSE <<>>)
         \o WorkerDetailsOf(messages, Tail(rest))

_extract_worker_details(messages) == OrNone(WorkerDetailsOf(messages, messages))

\* handle, lines 35-63: the response built from result["messages"]
ChatCompleteResponse(messages) ==
    IF messages = <<>>
    THEN [response |-> "No response generated.", tool_calls |-> OrNone(<<>>),
          worker_details |-> OrNone(<<>>)]
    ELSE IF messages[Len(messages)].type # "ai"
    THEN [response |-> "Unexpected response format.", tool_calls |-> OrNone(<<>>),
          worker_details |-> OrNone(<<>>)]
    ELSE [response |-> messages[Len(messages)].content,
          tool_calls |-> _extract_tool_calls(messages),
          worker_details |-> _extract_worker_details(messages)]

NoResponse == [response |-> "", tool_calls |-> OrNone(<<>>), worker_details |-> OrNone(<<>>)]

ReportInit ==
    /\ r_pc = "idle"
    /\ r_messages = <<>>
    /\ r_turn = 0
    /\ r_rounds = 0
    /\ r_start = 0
    /\ r_response = NoResponse

\* handle is entered and the supervisor is invoked with the HumanMessage of
\* the request; the checkpointer of the session holds the earlier messages
ReportRequest ==
    /\ r_pc \in {"idle", "responded"}
    /\ r_turn < MaxReportTurns
    /\ r_turn' = r_turn + 1
    /\ r_messages' = Append(r_messages, ReportHuman)
    /\ r_start' = Len(r_messages) + 1
    /\ r_pc' = "running"
    /\ UNCHANGED <<r_rounds, r_response>>
    /\ UNCHANGED <<clientVars, toolVars, serverVars, workerVars, adapterVars, poolVars, guardVars, storeVars, lazyVars, sinkVars, uiVars>>

\* the run: the supervisor calls a worker tool and the tool returns
ReportWorkerRound(name, request) ==
    /\ r_pc = "running"
    /\ r_rounds < MaxReportRounds
    /\ r_rounds' = r_rounds + 1
    /\ LET id == Len(r_messages) + 1 IN
       r_messages' = r_messages \o
          <<ReportAI(<<[name |-> name, args |-> [request |-> request], id |-> id]>>, ""),
            ReportTool(name, id, "worker answer")>>
    /\ UNCHANGED <<r_pc, r_turn, r_start, r_response>>
    /\ UNCHANGED <<clientVars, toolVars, serverVars, workerVars, adapterVars, poolVars, guardVars, storeVars, lazyVars, sinkVars, uiVars>>

\* the run ends with the final AIMessage; ainvoke returns the messages of
\* the session and handle builds the response
ReportRespond ==
    /\ r_pc = "running"
    /\ r_messages' = Append(r_messages, ReportAI(<<>>, "final answer"))
    /\ r_response' = ChatCompleteResponse(r_messages')
    /\ r_pc' = "responded"
    /\ UNCHANGED <<r_turn, r_rounds, r_start>>
    /\ UNCHANGED <<clientVars, toolVars, serverVars, workerVars, adapterVars, poolVars, guardVars, storeVars, lazyVars, sinkVars, uiVars>>

ReportNext ==
    \/ ReportRequest
    \/ \E name \in ReportWorkerTools, request \in ReportRequests : ReportWorkerRound(name, request)
    \/ ReportRespond

(***************************************************************************)
(* Specifications                                                          *)
(***************************************************************************)
Init == ClientInit /\ ToolInit /\ ServerInit /\ WorkerInit /\ AdapterInit /\ PoolInit /\ GuardInit /\ StoreInit /\ LazyInit /\ SinkInit
        /\ UiInit /\ ReportInit

Next == ServerNext

Spec == Init /\ [][Next]_vars

ClientSpec == Init /\ [][ClientNext]_vars

ToolSpec == Init /\ [][ToolNext]_vars

WorkerSpec == Init /\ [][WorkerNext]_vars

AdapterSpec == Init /\ [][AdapterNext]_vars

PoolSpec == Init /\ [][PoolNext]_vars

GuardSpec == Init /\ [][GuardNext]_vars

StoreSpec == Init /\ [][StoreNext]_vars

LazySpec == Init /\ [][LazyNext]_vars

SinkSpec == Init /\ [][SinkNext]_vars

UiSpec == Init /\ [][UiNext]_vars

ReportSpec == Init /\ [][ReportNext]_vars

(***************************************************************************)
(* Properties                                                              *)
(***************************************************************************)
Range(s) == {s[i] : i \in 1..Len(s)}
IsError(e) == e.type = "error"
IsClassifiedError(e) == e.type = "error" /\ e.message \in ClientMessages

\* C1: every server stream that is consumed to its end holds exactly one
\* terminal event (done or error), that event is the last one, and at no time
\* does any event follow a terminal event.
C1_StreamTermination ==
    impl \in Streaming =>
        /\ \A i \in 1..Len(events) : IsTerminal(events[i]) => i = Len(events)
        /\ pc = "closed" =>
              /\ CountIf(events, IsTerminal) = 1
              /\ IsTerminal(events[Len(events)])

\* C1 witness: a stream that emitted a token and tool events, then failed, and
\* was closed by the error event.
C1_Witness ==
    /\ impl = "endpoint"
    /\ pc = "closed"
    /\ raised # "none"
    /\ Len(events) >= 3
    /\ events[1].type = "token"
    /\ events[Len(events)].type = "error"

\* C2 (as claimed): whatever the server and the transport do, the events
\* yielded by a stream_chat call hold exactly one terminal event once the call
\* has returned, and no event follows a terminal event. (A call that ends
\* with an exception of the transport yields no terminal event either; the
\* formula leaves that case aside.)
C2_ClientOneTerminal ==
    /\ \A i \in 1..Len(yielded) : IsTerminal(yielded[i]) => i = Len(yielded)
    /\ c_pc = "finished" => CountIf(yielded, IsTerminal) = 1

\* C3 (as claimed): when every fetch so far failed with a retryable error, no
\* more than max_retries fetches were made, and the call ends by yielding the
\* classified error as its only error event.
C3_BoundedRetries ==
    fails = fetches =>
        /\ fetches <= MAX_RETRY_ATTEMPTS
        /\ c_pc \in {"finished", "raised"} =>
              /\ c_pc = "finished"
              /\ yielded # <<>>
              /\ yielded[Len(yielded)] = SSEEvent("error", ClassifyFinalError(last_error))
              /\ CountIf(yielded, IsError) = 1

\* C4 (as claimed): after 3 network failures and a successful 4th attempt, no
\* classified error was yielded and the time waited between the attempts is at
\* least delay * (1 + multiplier + multiplier^2).
C4_BackoffBeforeSuccess ==
    (/\ net_fails = 3
     /\ fails = 3
     /\ fetches = 4
     /\ auth.at = 0
     /\ c_pc = "finished")
    => /\ CountIf(yielded, IsClassifiedError) = 0
       /\ waited >= INITIAL_RETRY_DELAY_SECONDS
                      * (1 + BACKOFF_MULTIPLIER + BACKOFF_MULTIPLIER * BACKOFF_MULTIPLIER)

\* C5: once a fetch received 401, 403 or 429, the call is over: the last event
\* yielded is the error event classified for that status, it is the only
\* classified error event, no fetch was made after it and no time was waited
\* after it.
C5_AuthRateLimitTerminal ==
    auth.at > 0 =>
        /\ c_pc = "finished"
        /\ fetches = auth.at
        /\ attempt_number = auth.at
        /\ waited = auth.waited
        /\ yielded # <<>>
        /\ yielded[Len(yielded)] =
              [type |-> "error",
               message |-> IF auth.status = 429
                           THEN "Please wait a moment before sending another message."
                           ELSE "Unable to connect to the service. Please contact support."]
        /\ CountIf(yielded, IsClassifiedError) = 1

\* C5 witness: the second fetch is answered 429 after the first one streamed
\* an event and then failed.
C5_Witness ==
    /\ auth.at = 2
    /\ auth.status = 429
    /\ Len(yielded) = 2
    /\ yielded[1].type = "token"
    /\ c_pc = "finished"

\* C6: when an exception was raised while a stream generator handled the
\* request, the generator has returned (the exception did not leave it) and
\* its only error event is the last event, with the fixed message, which is
\* not the exception's text.
C6_ErrorEventOnException ==
    (impl \in Streaming /\ raised # "none") =>
        /\ pc = "closed"
        /\ outcome = "returned"
        /\ CountIf(events, IsError) = 1
        /\ events[Len(events)] =
              [type |-> "error", call |-> 0,
               message |-> "An error occurred during processing"]
        /\ events[Len(events)].message # raised

\* C6 witness: the exception was raised by the run, after a tool step.
C6_Witness ==
    /\ impl \in Streaming
    /\ raised \in ExcTexts
    /\ sup = "failed"
    /\ calls >= 1
    /\ pc = "closed"

\* C7: a session to which nothing was appended is an opening one, for both
\* is_opening_message implementations; a session to which a request appended
\* a message never is again; and the check a request made agrees.
C7_OpeningInvariant ==
    /\ \A s \in Sessions :
          /\ appended[s] = 0 => (IsOpeningBase(s) /\ IsOpeningMixin(s))
          /\ appended[s] > 0 => (~IsOpeningBase(s) /\ ~IsOpeningMixin(s))
    /\ pc = "create" => (is_opening <=> appended[sess] = 0)

\* C7 witness: the second request of a session whose first request appended
\* messages has made its check, and another session is still fresh.
C7_Witness ==
    /\ turn = 2
    /\ pc = "create"
    /\ ~is_opening
    /\ appended[sess] >= 2
    /\ \E s \in Sessions : appended[s] = 0 /\ IsOpeningBase(s)

\* C8 (as claimed): after the client disconnected during a stream, no task of
\* the run is left running and the session history holds no assistant message
\* of the cancelled turn.
C8_CancelLeavesNoAssistantMessage ==
    pc = "cancelled" =>
        /\ inflight = {}
        /\ sup \notin {"start", "reasoning", "dispatch"}
        /\ \A i \in 1..Len(store[sess].messages) :
              store[sess].messages[i].turn = turn
                 => store[sess].messages[i].kind \notin {"ai_calls", "ai_text"}

C10_ToolErrorTranslation ==
    \A i \in 1..Len(tool_log) :
        LET e == tool_log[i] IN
        /\ e.handler.kind = "raise" =>
              /\ e.result.kind = "return"
              /\ e.result.msg.tool_call_id = e.request.id
              /\ e.result.msg.content =
                    <<"I'm having trouble accessing ",
                      CASE e.request.name = "get_weather" -> "weather data"
                        [] e.request.name = "get_stock_price" -> "stock market data"
                        [] OTHER -> e.request.name,
                      " right now. Please try again.">>
              /\ e.handler.text \notin Range(e.result.msg.content)
        /\ e.handler.kind = "return" => e.result = e.handler

\* C10 witness: a mapped tool raised, and another call returned normally.
C10_Witness ==
    /\ Len(tool_log) = 2
    /\ tool_log[1].handler.kind = "raise"
    /\ tool_log[1].request.name = "get_stock_price"
    /\ tool_log[1].result.kind = "return"
    /\ tool_log[2].handler.kind = "return"

\* C11: whenever a worker tool has returned, it returned a string; when the
\* run raised an exception (in the model call, in the tool, or on the step
\* limit) the string is the worker's fixed sentence, which holds none of the
\* exception's text.
C11_WorkerFailureIsString ==
    w_pc = "returned" =>
        /\ w_result.kind = "return"
        /\ w_exc.at \in {"model", "tool", "limit"} =>
              /\ w_result.text = <<"I encountered an issue processing your ", w_name,
                                   " request. Please try again.">>
              /\ w_exc.text \notin Range(w_result.text)

\* C11 witness: the tool of the knowledge worker raised and the worker tool
\* returned.
C11_Witness ==
    /\ w_pc = "returned"
    /\ w_name = "knowledge"
    /\ w_exc.at = "tool"
    /\ w_result.kind = "return"

\* C12 (as claimed): an exception that leaves the worker's tool never ends the
\* run: it was handed to the reasoning loop as a tool message.
C12_ToolExceptionContinuesRun ==
    w_exc.at \in {"tool", "tool_handled"} =>
        /\ w_exc.at = "tool_handled"
        /\ \E i \in 1..Len(w_msgs) : w_msgs[i].kind = "tool_error"

\* C13 (as claimed): a run stopped by its step bound returns the last text the
\* worker produced, and not a failure sentence.
C13_StepBoundReturnsPartialText ==
    (w_pc = "returned" /\ w_exc.at = "limit") =>
        /\ w_result.text = LastAiText(w_msgs)
        /\ w_result.text \notin WorkerFailureSentences

\* C14 (as claimed): the error content a failing stock or weather invocation
\* returns holds no HTTP status code and no exception text.
C14_NoTransportCodeInToolError ==
    a_result.kind = "error" =>
        \A i \in 1..Len(a_result.content) :
            /\ a_result.content[i] \notin StatusTexts
            /\ a_result.content[i] \notin ExcTexts

\* C18 (as claimed): an invocation never makes more than 3 attempts; one that
\* reports a timeout made 3 attempts with backoff between them; and one whose
\* first attempt timed out went on to a further attempt.
C18_AdapterRetriesTimeouts ==
    /\ a_attempts <= 3
    /\ (a_pc = "returned" /\ a_failure.kind = "timeout") =>
          /\ a_attempts = 3
          /\ a_waited >= 1 + 2
    /\ (a_pc = "returned" /\ a_first = "timeout") => a_attempts >= 2

\* C20 (as claimed): however many invocations and attempts were made, each
\* adapter has constructed at most one transport client.
C20_OneSharedPool ==
    \A a \in Adapters : a_pools[a] <= 1

\* C19: in every interleaving of concurrent _get_client calls on one client
\* object, at most one pool is constructed, and every caller that has returned
\* holds that one pool.
C19_SinglePoolConstruction ==
    /\ g_built <= 1
    /\ \A c \in Callers :
          g_pc[c] = "done" => (g_got[c] # 0 /\ g_got[c] = g_client)
    /\ \A c, d \in Callers :
          (g_pc[c] = "done" /\ g_pc[d] = "done") => g_got[c] = g_got[d]

\* C19 witness: two callers both saw no pool at the first check; one built the
\* pool and returned, the other then took the lock and finds the pool there.
C19_Witness ==
    \E c, d \in Callers :
        /\ g_pc[c] = "done"
        /\ g_pc[d] = "locked"
        /\ g_built = 1
        /\ g_got[c] = g_client

\* C15: the two guardrail hooks hand back no state update, so the messages of
\* the run (the final text among them) are those of the same run without the
\* hooks, whether or not a warning was logged.
C15_GuardrailsNonBlocking ==
    /\ q_msgs = q_ref
    /\ \A i \in DOMAIN q_updates : q_updates[i] = NoUpdate

\* C15 witness: a turn has ended with a warning logged and the text untouched.
C15_Witness ==
    /\ q_pc = "idle"
    /\ q_turn > 0
    /\ q_log # <<>>
    /\ q_msgs = q_ref

TurnEnded == q_pc = "idle" /\ q_turn > 0

FinalText == q_msgs[Len(q_msgs)].content.body

CountEvents(event, detail) ==
    Cardinality({i \in DOMAIN q_log : q_log[i] = Finding(event, detail)})

\* C16: when a supervisor turn in which the stock tool returned price P ends
\* with a text stating a price Q, |P - Q| > 0.01, a numeric-mismatch warning
\* (potential_stock_hallucination) has been logged and the text is unchanged.
C16_SupervisorNumericMismatch ==
    (/\ TurnEnded
     /\ q_pipeline = "supervisor"
     /\ q_turn_price # NoNumber
     /\ _find_price_in_text(Lower(FinalText)) # NoNumber
     /\ \/ _find_price_in_text(Lower(FinalText)) - q_turn_price > PRICE_TOLERANCE
        \/ q_turn_price - _find_price_in_text(Lower(FinalText)) > PRICE_TOLERANCE)
    => /\ CountEvents("potential_stock_hallucination", <<>>) >= 1
       /\ q_msgs = q_ref

\* C17: when the knowledge results of the turn hold titles and the final text
\* holds known document-title phrases, each phrase matching none of the turn's
\* titles has exactly one fabricated-citation warning
\* (knowledge_guardrails_potential_fabricated_title), each matching phrase none.
C17_FabricatedCitationPerPhrase ==
    (TurnEnded /\ q_turn_titles # {})
    => \A i \in DOMAIN title_indicators :
          Contains(Lower(FinalText), title_indicators[i])
          => CountEvents("knowledge_guardrails_potential_fabricated_title", title_indicators[i])
                = IF is_known_title(title_indicators[i], {Lower(t) : t \in q_turn_titles})
                  THEN 0 ELSE 1

\* C21: a get_checkpointer call returns a checkpointer exactly when an
\* initialize has completed and no close was made since, and raises
\* RuntimeError otherwise; after a close the store holds no connection and is
\* not ready.
C21_StoreReadiness ==
    /\ m_lastop = "get_checkpointer" => (m_result = "checkpointer" <=> m_ready)
    /\ m_lastop = "close" => (m_chk = 0 /\ m_cm = 0)

\* C22: initialize is idempotent: however often it is called, at most one
\* connection is open, and after a close none is.
C22_InitializeIdempotent ==
    /\ Cardinality(m_open) <= 1
    /\ m_lastop = "close" => m_open = {}

\* C26: under every interleaving of concurrent callers of a lazy getter, no
\* caller's get_checkpointer raises 'not initialized'.
C26_NoUnreadyStore ==
    \A c \in Callers : l_res[c] # "RuntimeError"

\* the position of the message that opened the current turn
TurnStart == CHOOSE i \in DOMAIN q_msgs :
                 /\ q_msgs[i].type = "human"
                 /\ \A j \in DOMAIN q_msgs : q_msgs[j].type = "human" => j <= i

\* the positions of the tool results whose price the hook compared the final
\* text with
ComparedPositions ==
    {i \in ToolPositions(q_msgs, "get_stock_price") :
        /\ \A j \in ToolPositions(q_msgs, "get_stock_price") : j <= i
        /\ Contains(Lower(FinalText), <<"stock">>) \/ Contains(Lower(FinalText), <<"price">>)
        /\ _extract_price_from_json(q_msgs[i].content) # NoNumber
        /\ _find_price_in_text(Lower(FinalText)) # NoNumber}

\* C25: the tool result the output guardrail compares the final text of a turn
\* with was stored in that turn, never in an earlier one.
C25_SameTurnComparison ==
    TurnEnded => \A i \in ComparedPositions : i > TurnStart

\* C23: whatever the sink does during a request (works, is unavailable, or
\* raises in every call), the closed stream holds the events the same request
\* yields with a working sink.
C23_SinkFailureInvisible ==
    k_pc = "closed" => k_events = k_ref

EventPositions(type, c, upto) ==
    {j \in 1..upto : events[j].type = type /\ events[j].call = c}

\* C24: in every server stream each tool_result event comes after the
\* tool_call event of its own call, and a stream that ends with done holds a
\* tool_result for every tool_call before the done event.
C24_ToolEventOrdering ==
    impl \in Streaming =>
        /\ \A i \in 1..Len(events) :
              events[i].type = "tool_result" =>
                 Cardinality(EventPositions("tool_call", events[i].call, i - 1))
                    >= Cardinality(EventPositions("tool_result", events[i].call, i))
        /\ (pc = "closed" /\ Len(events) > 0 /\ events[Len(events)].type = "done") =>
              \A c \in 1..MaxCalls :
                 Cardinality(EventPositions("tool_call", c, Len(events) - 1))
                    = Cardinality(EventPositions("tool_result", c, Len(events) - 1))

\* C24 witness: two calls were dispatched in one step, the second returned
\* first, and the stream was closed by done.
C24_Witness ==
    /\ impl \in Streaming
    /\ pc = "closed"
    /\ Len(events) >= 5
    /\ events[Len(events)].type = "done"
    /\ \E i, j \in 1..Len(events) :
          /\ i < j
          /\ events[i] = StreamEvent("tool_result", 2, "")
          /\ events[j] = StreamEvent("tool_result", 1, "")

\* The fetches whose body gave the consumer at least one event.
BodyOrigins == {origin[i] : i \in DOMAIN origin} \ {0}

\* C27 (as claimed): within one stream_chat call the events handed to the
\* consumer are read from the body of a single fetch: once a fetch yielded
\* events and failed with a retryable error, no later fetch yields the
\* restarted reply after them.
C27_AtMostOnceDelivery == Cardinality(BodyOrigins) <= 1

\* C28 (as claimed): one stream_chat call has its message accepted by the
\* server (POST answered with 200, the run started) at most once.
C28_MessageSubmittedOnce == accepted <= 1

\* The steps sent for the tool_result of call c.
StepsOf(c) == {i \in DOMAIN u_steps : u_steps[i].result = c}

\* C29 (as claimed): every tool_result whose tool_call was received earlier
\* has produced exactly one step, and the step carries the context of its
\* own call.
C29_OneStepPerResult ==
    \A c \in u_answered :
        /\ Cardinality(StepsOf(c)) = 1
        /\ \A i \in StepsOf(c) :
              u_steps[i].name =
                 _build_step_name(u_calls[c].tool,
                                  _extract_tool_context(u_calls[c].tool, u_calls[c].args))

\* The invocations of the current request: the tool calls and the tool
\* messages that follow the request's HumanMessage.
CurrentMessages == SubSeq(r_messages, r_start, Len(r_messages))

CurrentToolMessages == {i \in r_start..Len(r_messages) : r_messages[i].type = "tool"}

\* C30 (as claimed): the response of a request reports the worker
\* invocations made while processing that request and none of an earlier
\* turn: every reported tool call was made after the request's message, and
\* worker_details has one entry per tool message of the request.
C30_OnlyCurrentInvocations ==
    r_pc = "responded" =>
        /\ \A k \in DOMAIN r_response.tool_calls.items :
              \E j \in DOMAIN MessageToolCalls(CurrentMessages) :
                 /\ MessageToolCalls(CurrentMessages)[j].name = r_response.tool_calls.items[k].tool
                 /\ MessageToolCalls(CurrentMessages)[j].args = r_response.tool_calls.items[k].input
        /\ Len(r_response.worker_details.items) = Cardinality(CurrentToolMessages)

====
